---- MODULE Spec2Model ----
(***************************************************************************)
(* Research-acquisition pipeline of backend/utils/search: the search       *)
(* fan-out with URL dedup (search_engine.py), the relevance ranker         *)
(* (llm_ranker.py), the strategy-racing scrape executor (scraper.py) and   *)
(* the vector content optimizer (scraped_data_optimizer.py).               *)
(* Further components: the retry loop of search_duckduckgo, a whole run of *)
(* search_and_scrape_complete, and two concurrent optimizer calls.         *)
(*                                                                         *)
(* Each component has its own specification over the module's variables;   *)
(* the variables of the other components rest at their idle values.        *)
(* Texts are modelled by what the code measures of them: a page's content  *)
(* by its word count, a URL by its host, a chunk by its length.            *)
(***************************************************************************)
EXTENDS Integers, Sequences, FiniteSets, TLC

VARIABLES
    \* ---- scraper.py: search_and_scrape_complete, the executor loop
    ranked_results,         \* the ranker's output handed to the executor loop
    required_results,
    final_results,
    processed_urls,
    end_idx,                \* end of the batch in flight
    ex_pc,                  \* position of search_and_scrape_complete
    proc,                   \* per candidate: position of its processor task
    batch_results,          \* per candidate: what its processor returned to gather
    \* ---- scraper.py: ultra_parallel_url_processor, the race of one URL
    url_data,               \* the candidate raced
    tasks,                  \* the strategy tasks of the race, by name: their status
    task_result,            \* per strategy: what its finished task returned
    race_pc,                \* position of the processor
    race_value,             \* what the processor returned
    timed_out,              \* the last asyncio.wait of the race ended by timeout
    completion_order,       \* the strategies in the order their tasks finished
    \* ---- search_engine.py: search_web_enhanced / remove_duplicate_urls
    search_required,        \* required_results of the search call
    url_multiplier,
    all_results,            \* what search_duckduckgo returned
    seen_urls,
    unique_results,
    dedup_pos,              \* entries of all_results the dedup loop has visited
    search_pc,              \* position of search_web_enhanced
    search_out,             \* what search_web_enhanced returned
    \* ---- llm_ranker.py: rank_urls_with_enhanced_query
    groq_available,         \* check_groq_availability()
    user_query,
    search_results,         \* the candidate list handed to the ranker (its records are shared)
    llm_output,             \* what the ranking collaborator answered
    ranked_urls,            \* the ranking returned
    enhanced_query,         \* the enhanced query returned
    rank_pc,                \* position of rank_urls_with_enhanced_query
    \* ---- scraped_data_optimizer.py: optimize_scraped_results
    scraped_results,        \* the accepted sources handed to the optimizer
    target_budget,          \* the character budget
    collection,             \* the session's collection in the index service
    collection_task,        \* the task running _create_temp_collection
    chunking_task,          \* the task running _chunk_scraped_results_parallel
    all_chunks,             \* the chunks the chunking task produced
    stored_chunks,          \* chunk_ids of the points upserted into the collection
    relevant_chunks,        \* what the similarity query returned
    opt_error,              \* the step that raised inside the try block, "" if none
    opt_out,                \* what optimize_scraped_results returned
    op_pc,                  \* position of optimize_scraped_results
    cleanup_pc,             \* position of _cleanup_temp_collection_background
    \* ---- search_engine.py: search_duckduckgo
    ddg_attempt,            \* attempt, the index of the retry loop
    ddg_reply,              \* what the search collaborator answered in the last attempt
    ddg_results,            \* results, the valid entries appended so far
    ddg_log,                \* per attempt made: whether it raised, how many entries it appended
    ddg_out,                \* what search_duckduckgo returned
    ddg_pc,                 \* position of search_duckduckgo
    \* ---- scraper.py: search_and_scrape_complete, a whole run
    pl_query,               \* query
    pl_required,            \* required_results as the caller gave it
    pl_search_results,      \* search_results, what search_web_enhanced returned
    pl_rank_path,           \* the path rank_urls_with_enhanced_query took
    pl_enhanced_query,      \* enhanced_query
    pl_return,              \* what the run returned to its caller
    pl_pc,                   \* position of the run
    \* ---- scraped_data_optimizer.py: two optimize_scraped_results calls on the singleton
    session_id,             \* per call: str(uuid.uuid4())[:8]
    call_pc,                \* per call: position of optimize_scraped_results
    cleanup_task,           \* per call: position of _cleanup_temp_collection_background
    index,                  \* the index service: per collection name, the call that created it
    issued,                 \* the upsert, query and delete requests the index served
    \* ---- crawl4ai_scraper.py: warmup_crawl4ai, shutdown_crawl4ai, scrape_with_crawl4ai
    crawl4ai_available,     \* CRAWL4AI_AVAILABLE
    _global_crawler,        \* the shared pre-initialized crawler
    _crawler_lock,          \* the asyncio.Lock: the caller holding it, or free
    cr_op,                  \* per caller: the function it called
    cr_pc,                  \* per caller: its position in that function
    last_write,             \* the last assignment to _global_crawler: by whom, the lock's holder then
    \* ---- scraper.py: assess_content_quality, one call
    q_content,              \* content
    q_url,                  \* url, by its host
    q_out,                  \* the (quality_score, tier) returned
    q_pc,                   \* position of the call
    \* ---- scraped_data_optimizer.py: the requests of one optimize call to its collection
    n_points,               \* len(points), the points _store_chunks_parallel uploads
    upload_tasks,           \* per upsert batch: the position of its upload
    create_task,            \* the task running _create_temp_collection
    chunk_task,             \* the task running _chunk_scraped_results_parallel
    session_collection,     \* the session's collection in the index service
    requests,               \* the requests issued and completed, in order
    lc_pc,                  \* position of optimize_scraped_results
    lc_cleanup,             \* position of _cleanup_temp_collection_background
    \* ---- crawl4ai_scraper.py: the attempts of one scrape_with_crawl4ai call
    c4_available,           \* CRAWL4AI_AVAILABLE
    c4_crawler,             \* _global_crawler as this call reads it
    c4_attempt,             \* attempt, the loop variable
    c4_events,              \* the attempts made and the sleeps taken, in order
    c4_out,                 \* the value returned
    c4_pc,                  \* position of the call
    \* ---- scraper.py: the warm-up flag over concurrent and successive pipeline runs
    _system_warmed_up,      \* the module flag of scraper.py
    wu_available,           \* CRAWL4AI_AVAILABLE
    wu_crawler,             \* _global_crawler, the shared crawl4ai client
    run_pc,                 \* per pipeline run: its position
    \* ---- llm_ranker.py: one make_groq_request_with_fallback call
    API_KEYS,               \* the five keys read from the environment
    key_pos,                \* position of the loop in api_key_priority_order
    key_log,                \* the keys looked at and what became of each, in order
    last_error,             \* last_error
    groq_out,               \* the response returned or the exception raised
    groq_pc                 \* position of the call

varsExecutor == <<ranked_results, required_results, final_results, processed_urls,
                  end_idx, ex_pc, proc, batch_results>>

varsRace == <<url_data, tasks, task_result, race_pc, race_value, timed_out,
              completion_order>>

varsSearch == <<search_required, url_multiplier, all_results, seen_urls,
                unique_results, dedup_pos, search_pc, search_out>>

varsRanker == <<groq_available, user_query, search_results, llm_output, ranked_urls,
                enhanced_query, rank_pc>>

varsOptimizer == <<scraped_results, target_budget, collection, collection_task,
                   chunking_task, all_chunks, stored_chunks, relevant_chunks, opt_error,
                   opt_out, op_pc, cleanup_pc>>

varsDdg == <<ddg_attempt, ddg_reply, ddg_results, ddg_log, ddg_out, ddg_pc>>

varsPipeline == <<pl_query, pl_required, pl_search_results, pl_rank_path,
                  pl_enhanced_query, pl_return, pl_pc>>

varsSessions == <<session_id, call_pc, cleanup_task, index, issued>>

varsCrawler == <<crawl4ai_available, _global_crawler, _crawler_lock, cr_op, cr_pc, last_write>>

varsQuality == <<q_content, q_url, q_out, q_pc>>

varsLifecycle == <<n_points, upload_tasks, create_task, chunk_task, session_collection,
                   requests, lc_pc, lc_cleanup>>

varsRetry == <<c4_available, c4_crawler, c4_attempt, c4_events, c4_out, c4_pc>>

varsWarm == <<_system_warmed_up, wu_available, wu_crawler, run_pc>>

varsKeys == <<API_KEYS, key_pos, key_log, last_error, groq_out, groq_pc>>

vars == <<varsExecutor, varsRace, varsSearch, varsRanker, varsOptimizer, varsDdg, varsPipeline, varsSessions, varsCrawler, varsQuality, varsLifecycle, varsRetry, varsWarm, varsKeys>>

----------------------------------------------------------------------------
(* Bounds of the model *)

MaxCandidates == 3
MaxRequired == 2
MaxResults == 4
MaxSearchRequired == 2
MaxRankInputs == 2
MaxRankItems == 2
MaxSources == 2
MaxRelevant == 3
MaxReply == 2

----------------------------------------------------------------------------
(* Generic helpers *)

Min(a, b) == IF a <= b THEN a ELSE b

Max(a, b) == IF a >= b THEN a ELSE b

MaxOf(S) == CHOOSE x \in S : \A y \in S : y <= x

MinOf(S) == CHOOSE x \in S : \A y \in S : x <= y

RECURSIVE AscSeq(_)
AscSeq(S) == IF S = {} THEN <<>> ELSE <<MinOf(S)>> \o AscSeq(S \ {MinOf(S)})

RECURSIVE SortIdxDesc(_, _)
SortIdxDesc(keys, remaining) ==
    IF remaining = {} THEN <<>>
    ELSE LET m == MaxOf({keys[i] : i \in remaining})
             top == {i \in remaining : keys[i] = m}
         IN AscSeq(top) \o SortIdxDesc(keys, remaining \ top)

\* list.sort(key=..., reverse=True) / sorted(..., reverse=True): stable, equal keys
\* keep their relative order.  keys[i] is the key of seq[i].
StableSortDesc(seq, keys) ==
    LET order == SortIdxDesc(keys, DOMAIN seq)
    IN [k \in DOMAIN seq |-> seq[order[k]]]

Prefix(seq, n) == SubSeq(seq, 1, Min(n, Len(seq)))

RECURSIVE SumSeq(_)
SumSeq(seq) == IF seq = <<>> THEN 0 ELSE Head(seq) + SumSeq(Tail(seq))

----------------------------------------------------------------------------
(* scraper.py: the quality gate *)

Hosts == {"en.wikipedia.org", "example.org", "example.com", "example.io",
          "twitter.com", "github.com"}

PremiumHosts == {"en.wikipedia.org", "github.com"}

EduOrgHosts == {"en.wikipedia.org", "example.org", "mit.edu"}

ComHosts == {"example.com", "twitter.com", "github.com"}

DomainBonus(host) ==
    IF host \in PremiumHosts THEN 30
    ELSE IF host \in EduOrgHosts THEN 15
    ELSE IF host \in ComHosts THEN 10
    ELSE 0

LengthScore(word_count) ==
    IF word_count >= 500 THEN 40
    ELSE IF word_count >= 200 THEN 30
    ELSE IF word_count >= 100 THEN 20
    ELSE IF word_count >= 50 THEN 10
    ELSE 0

\* faulty variant: the tier bounds are exclusive
TierOf_Exclusive(quality_score) ==
    IF quality_score > 60 THEN "EXCELLENT"
    ELSE IF quality_score > 40 THEN "GOOD"
    ELSE IF quality_score > 25 THEN "ACCEPTABLE"
    ELSE "POOR"

TierOf(quality_score) ==
    IF quality_score >= 60 THEN "EXCELLENT"
    ELSE IF quality_score >= 40 THEN "GOOD"
    ELSE IF quality_score >= 25 THEN "ACCEPTABLE"
    ELSE "POOR"

\* content.split() is empty exactly when content is empty or whitespace
assess_content_quality(word_count, host) ==
    IF word_count = 0
    THEN [quality_score |-> 0, quality_tier |-> "FAILED"]
    ELSE LET s == LengthScore(word_count) + DomainBonus(host)
         IN [quality_score |-> s, quality_tier |-> TierOf(s)]

----------------------------------------------------------------------------
(* scraper.py: ultra_parallel_url_processor, the race of one URL *)

Methods == {"beautifulsoup", "crawl4ai", "playwright", "selenium"}

StrategyNames == {"BeautifulSoup", "Crawl4AI", "Playwright"}

WordCounts == {0, 40, 100, 500}

\* faulty variant: every strategy is launched for every URL
LaunchedStrategies_All(suggested_method) == {"BeautifulSoup", "Crawl4AI", "Playwright"}

\* tasks = {} then tasks['...'] = asyncio.create_task(...)
LaunchedStrategies(suggested_method) ==
    IF suggested_method = "playwright" THEN {"Playwright"}
    ELSE (IF suggested_method = "beautifulsoup" THEN {"BeautifulSoup"}
          ELSE IF suggested_method = "crawl4ai" THEN {"Crawl4AI"}
          ELSE {})
         \cup {"Playwright"}

Failure == [success |-> FALSE, word_count |-> 0]

Success(wc) == [success |-> TRUE, word_count |-> wc]

\* What ultra_scrape_beautifulsoup / ultra_scrape_crawl4ai / ultra_scrape_playwright
\* can return.  Each catches every Exception and returns success = False, which is
\* also what the Playwright and Crawl4AI scrapers return when their import-time
\* flag (PLAYWRIGHT_AVAILABLE, CRAWL4AI_AVAILABLE) is off; scrape_with_crawl4ai
\* reports success only for more than 10 words.
StrategyOutcomes(name) ==
    {Failure} \cup
    (IF name = "Crawl4AI" THEN {Success(wc) : wc \in {w \in WordCounts : w > 10}}
     ELSE {Success(wc) : wc \in WordCounts})

AcceptableTiers == {"EXCELLENT", "GOOD", "ACCEPTABLE"}

\* faulty variant: every successful result is accepted, whatever its tier
IsAccepted_AnySuccess(result, host) == result.success

\* if result.get('success'): ... if quality_tier in ['EXCELLENT', 'GOOD', 'ACCEPTABLE']
IsAccepted(result, host) ==
    /\ result.success
    /\ assess_content_quality(result.word_count, host).quality_tier \in AcceptableTiers

None == [returned |-> "None", success |-> FALSE, method |-> "", url |-> "",
         suggested_method |-> "", quality_score |-> 0, quality_tier |-> "",
         word_count |-> 0]

\* result.update({'quality_score': ..., 'quality_tier': ..., 'word_count': ..., **url_data})
AcceptedResult(cand, name, result) ==
    LET q == assess_content_quality(result.word_count, cand.url)
    IN [returned |-> "dict", success |-> result.success, method |-> name,
        url |-> cand.url, suggested_method |-> cand.suggested_method,
        quality_score |-> q.quality_score, quality_tier |-> q.quality_tier,
        word_count |-> result.word_count]

Orderings(S) ==
    {sq \in UNION {[1..n -> S] : n \in 0..Cardinality(S)} :
        /\ Len(sq) = Cardinality(S)
        /\ \A a, b \in DOMAIN sq : a # b => sq[a] # sq[b]}

\* faulty variant: the accepting pass leaves the pending sibling tasks running
RECURSIVE ExamineDone_NoCancel(_, _, _, _)
ExamineDone_NoCancel(cand, st, res, order) ==
    IF order = <<>> THEN [st |-> st, returned |-> FALSE, value |-> None]
    ELSE LET name == Head(order)
         IN IF IsAccepted(res[name], cand.url)
            THEN [st |-> [st EXCEPT ![name] = "accepted"],
                  returned |-> TRUE,
                  value |-> AcceptedResult(cand, name, res[name])]
            ELSE ExamineDone_NoCancel(cand, [st EXCEPT ![name] = "discarded"], res,
                                      Tail(order))

\* for task in done: ... (one pass over the done set, examined in the order `order`).
\* st: the status of each strategy task; yields the statuses after the pass and
\* the value returned, if the pass returned.  `for p in pending: p.cancel()` cancels
\* the tasks the wait found still running.
RECURSIVE ExamineDone(_, _, _, _)
ExamineDone(cand, st, res, order) ==
    IF order = <<>> THEN [st |-> st, returned |-> FALSE, value |-> None]
    ELSE LET name == Head(order)
         IN IF IsAccepted(res[name], cand.url)
            THEN [st |-> [n \in StrategyNames |->
                            IF n = name THEN "accepted"
                            ELSE IF st[n] = "running" THEN "cancelled"
                            ELSE st[n]],
                  returned |-> TRUE,
                  value |-> AcceptedResult(cand, name, res[name])]
            ELSE ExamineDone(cand, [st EXCEPT ![name] = "discarded"], res,
                             Tail(order))

\* the names still in the tasks dict
InTasks(st) == {n \in StrategyNames : st[n] \in {"running", "done"}}

NoCandidate == [url |-> "", suggested_method |-> ""]

NoTasks == [n \in StrategyNames |-> "absent"]

NoResults == [n \in StrategyNames |-> Failure]

IdleRace ==
    /\ url_data = NoCandidate
    /\ tasks = NoTasks
    /\ task_result = NoResults
    /\ race_pc = "idle"
    /\ race_value = None
    /\ timed_out = FALSE
    /\ completion_order = <<>>

InitRace ==
    /\ url_data \in [url : Hosts, suggested_method : Methods]
    /\ tasks = NoTasks
    /\ task_result = NoResults
    /\ race_pc = "start"
    /\ race_value = None
    /\ timed_out = FALSE
    /\ completion_order = <<>>

\* lines 217-240: the strategy tasks are created
LaunchTasks ==
    /\ race_pc = "start"
    /\ tasks' = [n \in StrategyNames |->
                   IF n \in LaunchedStrategies(url_data.suggested_method)
                   THEN "running" ELSE "absent"]
    /\ race_pc' = "waiting"
    /\ UNCHANGED <<url_data, task_result, race_value, timed_out, completion_order>>
    /\ UNCHANGED <<varsExecutor, varsSearch, varsRanker, varsOptimizer, varsDdg, varsPipeline, varsSessions, varsCrawler, varsQuality, varsLifecycle, varsRetry, varsWarm, varsKeys>>

\* a strategy task finishes with what its scraper returns
TaskComplete(n) ==
    /\ race_pc = "waiting"
    /\ tasks[n] = "running"
    /\ \E r \in StrategyOutcomes(n) : task_result' = [task_result EXCEPT ![n] = r]
    /\ tasks' = [tasks EXCEPT ![n] = "done"]
    /\ completion_order' = Append(completion_order, n)
    /\ UNCHANGED <<url_data, race_pc, race_value, timed_out>>
    /\ UNCHANGED <<varsExecutor, varsSearch, varsRanker, varsOptimizer, varsDdg, varsPipeline, varsSessions, varsCrawler, varsQuality, varsLifecycle, varsRetry, varsWarm, varsKeys>>

\* asyncio.wait(tasks.values(), return_when=FIRST_COMPLETED, timeout=15) returns
\* with a non-empty done set, and the processor runs `for task in done` to its end
\* (or to its return) without yielding.  The done set is a Python set: its
\* iteration order is not the completion order.
WaitReturns ==
    /\ race_pc = "waiting"
    /\ LET done == {n \in StrategyNames : tasks[n] = "done"}
       IN /\ done # {}
          /\ \E order \in Orderings(done) :
               LET out == ExamineDone(url_data, tasks, task_result, order)
               IN /\ tasks' = out.st
                  /\ IF out.returned
                     THEN /\ race_pc' = "returned"
                          /\ race_value' = out.value
                     ELSE IF InTasks(out.st) = {}
                     THEN /\ race_pc' = "returned"
                          /\ race_value' = None
                     ELSE UNCHANGED <<race_pc, race_value>>
    /\ timed_out' = FALSE
    /\ UNCHANGED <<url_data, task_result, completion_order>>
    /\ UNCHANGED <<varsExecutor, varsSearch, varsRanker, varsOptimizer, varsDdg, varsPipeline, varsSessions, varsCrawler, varsQuality, varsLifecycle, varsRetry, varsWarm, varsKeys>>

\* asyncio.wait returns after 15 s with an empty done set: it raises nothing, the
\* for loop has nothing to examine, tasks is not empty and the while loop waits
\* again.  The `except asyncio.TimeoutError` handler is never entered.
WaitTimeout ==
    /\ race_pc = "waiting"
    /\ InTasks(tasks) # {}
    /\ \A n \in StrategyNames : tasks[n] # "done"
    /\ ~timed_out
    /\ timed_out' = TRUE
    /\ UNCHANGED <<url_data, tasks, task_result, race_pc, race_value, completion_order>>
    /\ UNCHANGED <<varsExecutor, varsSearch, varsRanker, varsOptimizer, varsDdg, varsPipeline, varsSessions, varsCrawler, varsQuality, varsLifecycle, varsRetry, varsWarm, varsKeys>>

NextRace ==
    \/ LaunchTasks
    \/ \E n \in StrategyNames : TaskComplete(n)
    \/ WaitReturns
    \/ WaitTimeout

\* What one run of the processor returns when its strategy tasks finish with the
\* results `res` and are examined in the order `order`.
ProcessorValue(cand, res, order) ==
    ExamineDone(cand,
                [n \in StrategyNames |->
                   IF n \in LaunchedStrategies(cand.suggested_method)
                   THEN "done" ELSE "absent"],
                res, order).value

----------------------------------------------------------------------------
(* scraper.py: search_and_scrape_complete, the executor loop *)

BatchCap == 8

\* the candidate kinds the executor model ranks: every suggested method, every
\* host class
CandidateKinds ==
    { [url |-> "en.wikipedia.org", suggested_method |-> "beautifulsoup"],
      [url |-> "example.com", suggested_method |-> "crawl4ai"],
      [url |-> "example.io", suggested_method |-> "playwright"],
      [url |-> "example.org", suggested_method |-> "selenium"] }

\* a ranking longer than the first batch of a run that needs two results
\* (batch_size = min(8, 2 * 2) = 4), so that the loop takes a second batch
TwoBatchRanking ==
    << [url |-> "example.com", suggested_method |-> "beautifulsoup"],
       [url |-> "example.com", suggested_method |-> "beautifulsoup"],
       [url |-> "example.io", suggested_method |-> "beautifulsoup"],
       [url |-> "example.com", suggested_method |-> "beautifulsoup"],
       [url |-> "en.wikipedia.org", suggested_method |-> "beautifulsoup"] >>

\* a run whose first batch is cut by the cap: five results required of nine
\* candidates, 2 * 5 > 8
CappedBatchRun ==
    [ranked_results |-> [i \in 1..9 |-> [url |-> "example.io",
                                         suggested_method |-> "playwright"]],
     required_results |-> 5]

IsDict(result) == result.returned = "dict"

\* faulty variant: every accepted result of the batch is collected
RECURSIVE Collect_NoBreak(_, _, _)
Collect_NoBreak(final, results, required) ==
    IF results = <<>> THEN final
    ELSE IF IsDict(Head(results)) /\ Head(results).success
         THEN Collect_NoBreak(Append(final, Head(results)), Tail(results), required)
         ELSE Collect_NoBreak(final, Tail(results), required)

\* for result in batch_results: if result and isinstance(result, dict) and
\* result.get('success'): final_results.append(result); if len(final_results) >=
\* required_results: break
RECURSIVE Collect(_, _, _)
Collect(final, results, required) ==
    IF results = <<>> THEN final
    ELSE IF IsDict(Head(results)) /\ Head(results).success
         THEN (IF Len(final) + 1 >= required
               THEN Append(final, Head(results))
               ELSE Collect(Append(final, Head(results)), Tail(results), required))
         ELSE Collect(final, Tail(results), required)

\* faulty variant: the collected results are truncated in arrival order
SortAndTruncate_Unsorted(final, required) == Prefix(final, required)

\* final_results.sort(key=quality_score, reverse=True); final_results[:required_results]
SortAndTruncate(final, required) ==
    Prefix(StableSortDesc(final, [k \in DOMAIN final |-> final[k].quality_score]),
           required)

CandidateIdx == 1..Len(ranked_results)

Batch == (processed_urls + 1)..end_idx

\* faulty variant: the loop gives up after its first batch
LoopGuard_OneBatch ==
    /\ Len(final_results) < required_results
    /\ processed_urls = 0

\* while len(final_results) < required_results and processed_urls < len(ranked_results)
LoopGuard ==
    /\ Len(final_results) < required_results
    /\ processed_urls < Len(ranked_results)

\* faulty variant: the batch size is not capped
BatchEnd_NoCap(processed, n_final, required, n_ranked) ==
    Min(processed + (required - n_final) * 2, n_ranked)

\* batch_size = min(8, remaining_needed * 2); end_idx = min(processed_urls + batch_size, len)
BatchEnd(processed, n_final, required, n_ranked) ==
    Min(processed + Min(BatchCap, (required - n_final) * 2), n_ranked)

IdleExecutor ==
    /\ ranked_results = <<>>
    /\ required_results = 0
    /\ final_results = <<>>
    /\ processed_urls = 0
    /\ end_idx = 0
    /\ ex_pc = "idle"
    /\ proc = <<>>
    /\ batch_results = <<>>

InitExecutor ==
    /\ \/ /\ ranked_results \in UNION {[1..n -> CandidateKinds] : n \in 1..MaxCandidates}
                                \cup {TwoBatchRanking}
          /\ required_results \in 1..MaxRequired
       \/ /\ ranked_results = CappedBatchRun.ranked_results
          /\ required_results = CappedBatchRun.required_results
    /\ final_results = <<>>
    /\ processed_urls = 0
    /\ end_idx = 0
    /\ ex_pc = "loop"
    /\ proc = [i \in CandidateIdx |-> "idle"]
    /\ batch_results = [i \in CandidateIdx |-> None]

\* one turn of the while loop up to `await asyncio.gather(*batch_tasks, ...)`:
\* the batch is cut and one processor task per URL of the batch is created
StartBatch ==
    /\ ex_pc = "loop"
    /\ LoopGuard
    /\ LET new_end == BatchEnd(processed_urls, Len(final_results), required_results,
                               Len(ranked_results))
       IN /\ end_idx' = new_end
          /\ proc' = [i \in CandidateIdx |->
                        IF i \in (processed_urls + 1)..new_end THEN "waiting" ELSE proc[i]]
    /\ ex_pc' = "gather"
    /\ UNCHANGED <<ranked_results, required_results, final_results, processed_urls,
                   batch_results>>
    /\ UNCHANGED <<varsRace, varsSearch, varsRanker, varsOptimizer, varsDdg, varsPipeline, varsSessions, varsCrawler, varsQuality, varsLifecycle, varsRetry, varsWarm, varsKeys>>

\* The processor task of candidate i runs its race to its return.  The processors
\* of a batch share no state, so the race of each is one step here; its wait rounds
\* are the actions of SpecRace.  A processor whose race never ends never takes
\* this step.
ProcessorReturns(i) ==
    /\ ex_pc = "gather"
    /\ proc[i] = "waiting"
    /\ \E res \in [StrategyNames -> UNION {StrategyOutcomes(n) : n \in StrategyNames}] :
          /\ \A n \in StrategyNames :
                res[n] \in (IF n \in LaunchedStrategies(ranked_results[i].suggested_method)
                            THEN StrategyOutcomes(n) ELSE {Failure})
          /\ \E order \in Orderings(LaunchedStrategies(ranked_results[i].suggested_method)) :
                batch_results' = [batch_results EXCEPT
                                    ![i] = ProcessorValue(ranked_results[i], res, order)]
    /\ proc' = [proc EXCEPT ![i] = "returned"]
    /\ UNCHANGED <<ranked_results, required_results, final_results, processed_urls,
                   end_idx, ex_pc>>
    /\ UNCHANGED <<varsRace, varsSearch, varsRanker, varsOptimizer, varsDdg, varsPipeline, varsSessions, varsCrawler, varsQuality, varsLifecycle, varsRetry, varsWarm, varsKeys>>

\* faulty variant: gather returns as soon as one processor task has returned
GatherReady_FirstDone == \E i \in Batch : proc[i] = "returned"

\* gather returns once every processor task of the batch has returned
GatherReady == \A i \in Batch : proc[i] = "returned"

\* asyncio.gather returns; the results are collected in batch order
GatherReturns ==
    /\ ex_pc = "gather"
    /\ GatherReady
    /\ final_results' = Collect(final_results,
                                [k \in 1..(end_idx - processed_urls) |->
                                    batch_results[processed_urls + k]],
                                required_results)
    /\ processed_urls' = end_idx
    /\ ex_pc' = "loop"
    /\ UNCHANGED <<ranked_results, required_results, end_idx, proc, batch_results>>
    /\ UNCHANGED <<varsRace, varsSearch, varsRanker, varsOptimizer, varsDdg, varsPipeline, varsSessions, varsCrawler, varsQuality, varsLifecycle, varsRetry, varsWarm, varsKeys>>

\* the while loop ends: sort, truncate, return
Finish ==
    /\ ex_pc = "loop"
    /\ ~LoopGuard
    /\ final_results' = SortAndTruncate(final_results, required_results)
    /\ ex_pc' = "done"
    /\ UNCHANGED <<ranked_results, required_results, processed_urls, end_idx, proc,
                   batch_results>>
    /\ UNCHANGED <<varsRace, varsSearch, varsRanker, varsOptimizer, varsDdg, varsPipeline, varsSessions, varsCrawler, varsQuality, varsLifecycle, varsRetry, varsWarm, varsKeys>>

NextExecutor ==
    \/ StartBatch
    \/ \E i \in CandidateIdx : ProcessorReturns(i)
    \/ GatherReturns
    \/ Finish

----------------------------------------------------------------------------
(* search_engine.py: search_web_enhanced and remove_duplicate_urls *)

DEFAULT_URL_MULTIPLIER == 4

Urls == {"", "https://a", "https://b"}

Titles == {"t1", "t2"}

SearchEntries == [url : Urls, title : Titles]

\* faulty variant: the seen set is not consulted
IsNewUrl_NoSeenCheck(url, seen) == url # ""

\* if url and url not in seen_urls
IsNewUrl(url, seen) == url # "" /\ url \notin seen

IdleSearch ==
    /\ search_required = 0
    /\ url_multiplier = 0
    /\ all_results = <<>>
    /\ seen_urls = {}
    /\ unique_results = <<>>
    /\ dedup_pos = 0
    /\ search_pc = "idle"
    /\ search_out = <<>>

\* search_web_enhanced has awaited search_duckduckgo and enters remove_duplicate_urls
InitSearch ==
    /\ search_required \in 1..MaxSearchRequired
    /\ url_multiplier \in {1, DEFAULT_URL_MULTIPLIER}
    /\ all_results \in UNION {[1..n -> SearchEntries] : n \in 0..MaxResults}
    /\ seen_urls = {}
    /\ unique_results = <<>>
    /\ dedup_pos = 0
    /\ search_pc = "dedup"
    /\ search_out = <<>>

\* one turn of `for result in results`
DedupStep ==
    /\ search_pc = "dedup"
    /\ dedup_pos < Len(all_results)
    /\ LET result == all_results[dedup_pos + 1]
       IN IF IsNewUrl(result.url, seen_urls)
          THEN /\ seen_urls' = seen_urls \cup {result.url}
               /\ unique_results' = Append(unique_results, result)
          ELSE UNCHANGED <<seen_urls, unique_results>>
    /\ dedup_pos' = dedup_pos + 1
    /\ UNCHANGED <<search_required, url_multiplier, all_results, search_pc, search_out>>
    /\ UNCHANGED <<varsExecutor, varsRace, varsRanker, varsOptimizer, varsDdg, varsPipeline, varsSessions, varsCrawler, varsQuality, varsLifecycle, varsRetry, varsWarm, varsKeys>>

\* return unique_results[:total_urls_needed]
SearchReturns ==
    /\ search_pc = "dedup"
    /\ dedup_pos = Len(all_results)
    /\ search_out' = Prefix(unique_results, search_required * url_multiplier)
    /\ search_pc' = "returned"
    /\ UNCHANGED <<search_required, url_multiplier, all_results, seen_urls,
                   unique_results, dedup_pos>>
    /\ UNCHANGED <<varsExecutor, varsRace, varsRanker, varsOptimizer, varsDdg, varsPipeline, varsSessions, varsCrawler, varsQuality, varsLifecycle, varsRetry, varsWarm, varsKeys>>

NextSearch ==
    \/ DedupStep
    \/ SearchReturns

----------------------------------------------------------------------------
(* llm_ranker.py: rank_urls_with_enhanced_query *)

MAX_RANKING_URLS == 100

JAVASCRIPT_HEAVY_SITES == {"twitter.com"}

COMPLEX_DYNAMIC_SITES == {"github.com"}

\* a query: its lower-cased words, in order, and its length in characters
Queries ==
    { [words |-> <<"budget", "laptop">>, chars |-> 13],
      [words |-> <<"weather", "today">>, chars |-> 13],
      [words |-> <<"hello">>, chars |-> 5],
      [words |-> <<"laptop", "laptop">>, chars |-> 13] }

\* the search results the model ranks: host of the URL, the query words the title
\* and the snippet contain
SearchKinds ==
    << [host |-> "example.com", title |-> {"laptop"}, snippet |-> {"laptop", "budget"}],
       [host |-> "twitter.com", title |-> {}, snippet |-> {"budget", "weather"}],
       [host |-> "github.com", title |-> {"budget", "laptop", "hello"}, snippet |-> {}] >>

\* the i-th search result, of kind k: its URL is its own
SearchResult(i, k) ==
    [url |-> i, host |-> SearchKinds[k].host, title |-> SearchKinds[k].title,
     snippet |-> SearchKinds[k].snippet, has_ranking |-> FALSE, relevance_score |-> 0,
     suggested_method |-> "", method_reason |-> ""]

\* the candidate lists: every short list, and two long ones around MAX_RANKING_URLS
RankerInputs ==
    UNION {{[i \in 1..n |-> SearchResult(i, ks[i])] : ks \in [1..n -> DOMAIN SearchKinds]}
            : n \in 0..MaxRankInputs}
    \cup {[i \in 1..n |-> SearchResult(i, (i % Len(SearchKinds)) + 1)]
            : n \in {MAX_RANKING_URLS, MAX_RANKING_URLS + 1}}

\* list.sort(key=relevance_score, reverse=True) / sorted(..., reverse=True): stable
RECURSIVE SortByRelevanceFrom(_, _)
SortByRelevanceFrom(seq, scores) ==
    IF scores = {} THEN <<>>
    ELSE LET m == MaxOf(scores)
         IN SelectSeq(seq, LAMBDA x : x.relevance_score = m)
            \o SortByRelevanceFrom(seq, scores \ {m})

SortByRelevanceDesc(seq) ==
    SortByRelevanceFrom(seq, {seq[i].relevance_score : i \in DOMAIN seq})

\* determine_simple_method
determine_simple_method(host) ==
    IF host \in JAVASCRIPT_HEAVY_SITES THEN "playwright"
    ELSE IF host \in COMPLEX_DYNAMIC_SITES THEN "crawl4ai"
    ELSE "beautifulsoup"

\* faulty variant: a word found in the snippet counts nothing
RECURSIVE calculate_simple_relevance_score_TitleOnly(_, _)
calculate_simple_relevance_score_TitleOnly(result, query_words) ==
    IF query_words = <<>> THEN 0
    ELSE (IF Head(query_words) \in result.title THEN 10 ELSE 0)
         + calculate_simple_relevance_score_TitleOnly(result, Tail(query_words))

\* calculate_simple_relevance_score: for word in query_words: +10 in title, +5 in snippet
RECURSIVE calculate_simple_relevance_score(_, _)
calculate_simple_relevance_score(result, query_words) ==
    IF query_words = <<>> THEN 0
    ELSE (IF Head(query_words) \in result.title THEN 10 ELSE 0)
         + (IF Head(query_words) \in result.snippet THEN 5 ELSE 0)
         + calculate_simple_relevance_score(result, Tail(query_words))

\* the loop of simple_rank_urls_with_methods writes the ranking keys into the
\* records of the list it was given
SimplyRanked(result, query) ==
    [result EXCEPT
        !.has_ranking = TRUE,
        !.relevance_score = calculate_simple_relevance_score(result, query.words),
        !.suggested_method = determine_simple_method(result.host),
        !.method_reason = "Simple pattern matching"]

\* faulty variant: the fallback ranks nothing
simple_rank_urls_with_methods_Nothing(results, query) == <<>>

\* simple_rank_urls_with_methods: the records after its loop, sorted
simple_rank_urls_with_methods(results, query) ==
    SortByRelevanceDesc([i \in DOMAIN results |-> SimplyRanked(results[i], query)])

WeatherTerms == {"weather", "temperature", "rain", "forecast", "climate"}

LaptopTerms == {"laptop", "computer", "tech", "review", "specifications"}

PythonTerms == {"python", "programming", "code", "tutorial", "learn"}

RecipeTerms == {"recipe", "cooking", "food", "ingredients"}

NewsTerms == {"news", "latest", "today", "current"}

WordsOf(query) == {query.words[i] : i \in DOMAIN query.words}

\* _simple_query_enhancement: the query followed by the first template a term of
\* which it contains; chars counts the template's characters
_simple_query_enhancement(query) ==
    IF WordsOf(query) \cap WeatherTerms # {}
    THEN [origin |-> "weather", chars |-> query.chars + 102]
    ELSE IF WordsOf(query) \cap LaptopTerms # {}
    THEN [origin |-> "laptop", chars |-> query.chars + 86]
    ELSE IF WordsOf(query) \cap PythonTerms # {}
    THEN [origin |-> "python", chars |-> query.chars + 82]
    ELSE IF WordsOf(query) \cap RecipeTerms # {}
    THEN [origin |-> "recipe", chars |-> query.chars + 72]
    ELSE IF WordsOf(query) \cap NewsTerms # {}
    THEN [origin |-> "news", chars |-> query.chars + 57]
    ELSE [origin |-> "generic", chars |-> query.chars + 56]

OriginalQuery(query) == [origin |-> "original", chars |-> query.chars]

NoQuery == [words |-> <<>>, chars |-> 0]

NoEnhancedQuery == [origin |-> "", chars |-> 0]

\* one entry of the collaborator's url_rankings: id is an integer when id_is_int
RankItems(n) ==
    [id : {-1, 0, n - 1, n}, id_is_int : {TRUE}, relevance_score : {90},
     method : {"selenium"}, reason : {"llm"}]
    \cup [id : {-1, 0, n - 1, n}, id_is_int : {TRUE}, relevance_score : {5},
          method : {"playwright"}, reason : {"llm"}]
    \cup {[id |-> 0, id_is_int |-> FALSE, relevance_score |-> 0,
           method |-> "beautifulsoup", reason |-> ""]}

\* the collaborator's answers: response.choices[0].message.content
NoOutput == [kind |-> "none", has_enhanced_query |-> FALSE, enhanced_chars |-> 0,
             url_rankings |-> <<>>]

RaisedOutput == [NoOutput EXCEPT !.kind = "raised"]

UnparsableOutput == [NoOutput EXCEPT !.kind = "unparsable"]

JsonOutputs(n) ==
    [kind : {"json"}, has_enhanced_query : {TRUE}, enhanced_chars : {0, 9, 10, 60},
     url_rankings : UNION {[1..m -> RankItems(n)] : m \in 0..MaxRankItems}]
    \cup [kind : {"json"}, has_enhanced_query : {FALSE}, enhanced_chars : {0},
          url_rankings : UNION {[1..m -> RankItems(n)] : m \in 0..MaxRankItems}]

\* _build_ranked_results_from_combined raises (TypeError on `0 <= result_id`) at an
\* entry whose id is no integer
BuildRaises(ranking_data) ==
    \E k \in DOMAIN ranking_data : ~ranking_data[k].id_is_int

\* _build_ranked_results_from_combined: (ranked_results, used_ids); used_ids holds
\* 0-based ids
RECURSIVE BuildFrom(_, _, _, _)
BuildFrom(ranking_data, original_results, ranked, used_ids) ==
    IF ranking_data = <<>> THEN [ranked_results |-> ranked, used_ids |-> used_ids]
    ELSE LET item == Head(ranking_data)
         IN IF 0 <= item.id /\ item.id < Len(original_results) /\ item.id \notin used_ids
            THEN BuildFrom(Tail(ranking_data), original_results,
                           Append(ranked,
                                  [original_results[item.id + 1] EXCEPT
                                      !.has_ranking = TRUE,
                                      !.relevance_score = item.relevance_score,
                                      !.suggested_method = item.method,
                                      !.method_reason = item.reason]),
                           used_ids \cup {item.id})
            ELSE BuildFrom(Tail(ranking_data), original_results, ranked, used_ids)

\* faulty variant: the entries of the ranking list are ignored
_build_ranked_results_from_combined_Nothing(ranking_data, original_results) ==
    [ranked_results |-> <<>>, used_ids |-> {}]

_build_ranked_results_from_combined(ranking_data, original_results) ==
    BuildFrom(ranking_data, original_results, <<>>, {})

\* _finalize_combined_ranking: the results no entry named are appended with the
\* default ranking, in input order; then the list is sorted
DefaultRanked(result) ==
    [result EXCEPT !.has_ranking = TRUE, !.relevance_score = 10,
                   !.suggested_method = "beautifulsoup",
                   !.method_reason = "Fallback - LLM didn't suggest method"]

\* faulty variant: the missing results are appended and the list is not sorted
_finalize_combined_ranking_Unsorted(built, original_results) ==
    built.ranked_results
    \o [i \in DOMAIN SelectSeq(original_results,
                               LAMBDA r : (r.url - 1) \notin built.used_ids) |->
          DefaultRanked(SelectSeq(original_results,
                                  LAMBDA r : (r.url - 1) \notin built.used_ids)[i])]

_finalize_combined_ranking(built, original_results) ==
    SortByRelevanceDesc(
        built.ranked_results
        \o [i \in DOMAIN SelectSeq(original_results,
                                   LAMBDA r : (r.url - 1) \notin built.used_ids) |->
              DefaultRanked(SelectSeq(original_results,
                                      LAMBDA r : (r.url - 1) \notin built.used_ids)[i])])

\* faulty variant: the collaborator's enhanced query is taken whatever its length
ParsedEnhancedQuery_NoMinimum(output, query) ==
    IF output.has_enhanced_query
    THEN [origin |-> "llm", chars |-> output.enhanced_chars]
    ELSE OriginalQuery(query)

\* _parse_combined_response, the enhanced query: the collaborator's, unless it is
\* missing (then the user's query stands in), empty or shorter than 10 characters
ParsedEnhancedQuery(output, query) ==
    LET chars == IF output.has_enhanced_query THEN output.enhanced_chars ELSE query.chars
    IN IF chars < 10 THEN _simple_query_enhancement(query)
       ELSE IF output.has_enhanced_query THEN [origin |-> "llm", chars |-> chars]
       ELSE OriginalQuery(query)

\* urls_to_rank = search_results[:MAX_RANKING_URLS]
urls_to_rank(results) == Prefix(results, MAX_RANKING_URLS)

\* the records of the caller's list after simple_rank_urls_with_methods ran over
\* its first n entries
MutatedBySimpleRank(results, n, query) ==
    [i \in DOMAIN results |-> IF i <= n THEN SimplyRanked(results[i], query) ELSE results[i]]

IdleRanker ==
    /\ groq_available = FALSE
    /\ user_query = NoQuery
    /\ search_results = <<>>
    /\ llm_output = NoOutput
    /\ ranked_urls = <<>>
    /\ enhanced_query = NoEnhancedQuery
    /\ rank_pc = "idle"

InitRanker ==
    /\ groq_available \in BOOLEAN
    /\ user_query \in Queries
    /\ search_results \in RankerInputs
    /\ llm_output = NoOutput
    /\ ranked_urls = <<>>
    /\ enhanced_query = NoEnhancedQuery
    /\ rank_pc = "called"

\* lines 272-274: no search results
RankNoResults ==
    /\ rank_pc = "called"
    /\ search_results = <<>>
    /\ ranked_urls' = <<>>
    /\ enhanced_query' = OriginalQuery(user_query)
    /\ rank_pc' = "returned"
    /\ UNCHANGED <<groq_available, user_query, search_results, llm_output>>
    /\ UNCHANGED <<varsExecutor, varsRace, varsSearch, varsOptimizer, varsDdg, varsPipeline, varsSessions, varsCrawler, varsQuality, varsLifecycle, varsRetry, varsWarm, varsKeys>>

\* lines 276-280: the collaborator is not available
RankGroqUnavailable ==
    /\ rank_pc = "called"
    /\ search_results # <<>>
    /\ ~groq_available
    /\ ranked_urls' = simple_rank_urls_with_methods(search_results, user_query)
    /\ search_results' = MutatedBySimpleRank(search_results, Len(search_results), user_query)
    /\ enhanced_query' = _simple_query_enhancement(user_query)
    /\ rank_pc' = "returned"
    /\ UNCHANGED <<groq_available, user_query, llm_output>>
    /\ UNCHANGED <<varsExecutor, varsRace, varsSearch, varsOptimizer, varsDdg, varsPipeline, varsSessions, varsCrawler, varsQuality, varsLifecycle, varsRetry, varsWarm, varsKeys>>

\* lines 286-302 with _generate_combined_ranking_and_query raising: the request
\* failed on every key; the fallback ranks the whole list
RankRequestFails ==
    /\ rank_pc = "called"
    /\ search_results # <<>>
    /\ groq_available
    /\ llm_output' = RaisedOutput
    /\ ranked_urls' = simple_rank_urls_with_methods(search_results, user_query)
    /\ search_results' = MutatedBySimpleRank(search_results, Len(search_results), user_query)
    /\ enhanced_query' = _simple_query_enhancement(user_query)
    /\ rank_pc' = "returned"
    /\ UNCHANGED <<groq_available, user_query>>
    /\ UNCHANGED <<varsExecutor, varsRace, varsSearch, varsOptimizer, varsDdg, varsPipeline, varsSessions, varsCrawler, varsQuality, varsLifecycle, varsRetry, varsWarm, varsKeys>>

\* _parse_combined_response, lines 388-393: the answer holds no JSON or building the
\* ranking raised; the fallback ranks the list the parser was given
RankParseFails ==
    /\ rank_pc = "called"
    /\ search_results # <<>>
    /\ groq_available
    /\ \E output \in {UnparsableOutput}
                     \cup {o \in JsonOutputs(Len(urls_to_rank(search_results))) :
                              BuildRaises(o.url_rankings)} :
          llm_output' = output
    /\ ranked_urls' = simple_rank_urls_with_methods(urls_to_rank(search_results), user_query)
    /\ search_results' = MutatedBySimpleRank(search_results,
                                             Len(urls_to_rank(search_results)), user_query)
    /\ enhanced_query' = _simple_query_enhancement(user_query)
    /\ rank_pc' = "returned"
    /\ UNCHANGED <<groq_available, user_query>>
    /\ UNCHANGED <<varsExecutor, varsRace, varsSearch, varsOptimizer, varsDdg, varsPipeline, varsSessions, varsCrawler, varsQuality, varsLifecycle, varsRetry, varsWarm, varsKeys>>

\* _parse_combined_response, lines 362-384: the answer parsed
RankParsed ==
    /\ rank_pc = "called"
    /\ search_results # <<>>
    /\ groq_available
    /\ \E output \in {o \in JsonOutputs(Len(urls_to_rank(search_results))) :
                         ~BuildRaises(o.url_rankings)} :
          /\ llm_output' = output
          /\ ranked_urls' =
                _finalize_combined_ranking(
                    _build_ranked_results_from_combined(output.url_rankings,
                                                        urls_to_rank(search_results)),
                    urls_to_rank(search_results))
          /\ enhanced_query' = ParsedEnhancedQuery(output, user_query)
    /\ rank_pc' = "returned"
    /\ UNCHANGED <<groq_available, user_query, search_results>>
    /\ UNCHANGED <<varsExecutor, varsRace, varsSearch, varsOptimizer, varsDdg, varsPipeline, varsSessions, varsCrawler, varsQuality, varsLifecycle, varsRetry, varsWarm, varsKeys>>

NextRanker ==
    \/ RankNoResults
    \/ RankGroqUnavailable
    \/ RankRequestFails
    \/ RankParseFails
    \/ RankParsed

----------------------------------------------------------------------------
(* scraped_data_optimizer.py: optimize_scraped_results *)

\* query_points(limit=30, score_threshold=0.6): scores are kept in hundredths
QUERY_LIMIT == 30

SCORE_THRESHOLD == 60

Scores == {SCORE_THRESHOLD, 90}

Budgets == {0, 150, 250, 3000}

\* a content is its paragraphs (separated by a blank line), a paragraph its
\* sentences (separated by ". "), a sentence its length in characters
Contents ==
    << <<<<60>>>>,
       <<<<120>>, <<30>>, <<400>>>>,
       <<<<600, 500, 40>>>>,
       <<<<70>>, <<1200>>>> >>

\* len('. '.join(sentences)) and len('\n\n'.join(paragraphs))
JoinedLen(lens) == IF lens = <<>> THEN 0 ELSE SumSeq(lens) + 2 * (Len(lens) - 1)

ParagraphLen(paragraph) == JoinedLen(paragraph)

ContentLen(content) ==
    JoinedLen([p \in DOMAIN content |-> ParagraphLen(content[p])])

\* a scraped result; the first one carries a quality_score, the second has none
Source(i, k) ==
    IF i = 1
    THEN [url |-> i, title |-> <<"title", i>>, content |-> Contents[k],
          quality_score |-> 80, source_type |-> "scraped"]
    ELSE [url |-> i, title |-> <<"title", i>>, content |-> Contents[k],
          source_type |-> "scraped"]

OptimizerInputs ==
    UNION {{[i \in 1..n |-> Source(i, ks[i])] : ks \in [1..n -> DOMAIN Contents]}
            : n \in 0..MaxSources}

\* len(current_chunk.strip()): current_chunk ends with ". "
StrippedLen(current_len) == IF current_len = 0 THEN 0 ELSE current_len - 1

\* lines 167-198: the sentence grouping of a paragraph longer than 1000 characters
RECURSIVE SentenceGroups(_, _, _)
SentenceGroups(sentences, current_len, groups) ==
    IF sentences = <<>>
    THEN IF StrippedLen(current_len) > 50
         THEN Append(groups, [length |-> StrippedLen(current_len),
                              chunk_type |-> "sentence_group"])
         ELSE groups
    ELSE IF current_len + Head(sentences) <= 1000
         THEN SentenceGroups(Tail(sentences), current_len + Head(sentences) + 2, groups)
         ELSE SentenceGroups(Tail(sentences), Head(sentences) + 2,
                             IF StrippedLen(current_len) > 50
                             THEN Append(groups, [length |-> StrippedLen(current_len),
                                                  chunk_type |-> "sentence_group"])
                             ELSE groups)

\* lines 152-198: the chunks of one paragraph
ParagraphChunks(paragraph) ==
    IF ParagraphLen(paragraph) < 50 THEN <<>>
    ELSE IF ParagraphLen(paragraph) <= 1000
    THEN <<[length |-> ParagraphLen(paragraph), chunk_type |-> "paragraph"]>>
    ELSE SentenceGroups(paragraph, 0, <<>>)

RECURSIVE ContentChunks(_)
ContentChunks(content) ==
    IF content = <<>> THEN <<>>
    ELSE ParagraphChunks(Head(content)) \o ContentChunks(Tail(content))

\* line 145: result.get('quality_score', 50)
QualityScoreOf(result) ==
    IF "quality_score" \in DOMAIN result THEN result.quality_score ELSE 50

\* faulty variant: chunk_id starts again at 0 for every source
RECURSIVE ChunkFrom_IdPerSource(_, _, _)
ChunkFrom_IdPerSource(results, source_idx, chunks) ==
    IF source_idx >= Len(results) THEN chunks
    ELSE LET result == results[source_idx + 1]
             pieces == IF ContentLen(result.content) < 100 THEN <<>>
                       ELSE ContentChunks(result.content)
         IN ChunkFrom_IdPerSource(results, source_idx + 1,
                      chunks \o [k \in DOMAIN pieces |->
                                    [chunk_id |-> k - 1,
                                     source_idx |-> source_idx,
                                     length |-> pieces[k].length,
                                     url |-> result.url,
                                     title |-> result.title,
                                     quality_score |-> QualityScoreOf(result),
                                     chunk_type |-> pieces[k].chunk_type]])

\* _chunk_scraped_results_sync: source_idx counts from 0, chunk_id from 0 and
\* on across the sources
RECURSIVE ChunkFrom(_, _, _)
ChunkFrom(results, source_idx, chunks) ==
    IF source_idx >= Len(results) THEN chunks
    ELSE LET result == results[source_idx + 1]
             pieces == IF ContentLen(result.content) < 100 THEN <<>>
                       ELSE ContentChunks(result.content)
         IN ChunkFrom(results, source_idx + 1,
                      chunks \o [k \in DOMAIN pieces |->
                                    [chunk_id |-> Len(chunks) + k - 1,
                                     source_idx |-> source_idx,
                                     length |-> pieces[k].length,
                                     url |-> result.url,
                                     title |-> result.title,
                                     quality_score |-> QualityScoreOf(result),
                                     chunk_type |-> pieces[k].chunk_type]])

_chunk_scraped_results_sync(results) == ChunkFrom(results, 0, <<>>)

\* _query_relevant_chunks_fixed: the points the index returns are stored points,
\* each at most once, every score at or above the threshold, best score first
IsQueryResult(points, chunks, stored) ==
    /\ \A k \in DOMAIN points : points[k][1] \in DOMAIN chunks
    /\ \A k \in DOMAIN points : chunks[points[k][1]].chunk_id \in stored
    /\ \A j, k \in DOMAIN points : j < k => points[j][1] # points[k][1]
    /\ \A j, k \in DOMAIN points : j < k => points[j][2] >= points[k][2]

QueryResults(chunks, stored) ==
    UNION {{[k \in 1..n |->
               [chunk_id |-> chunks[points[k][1]].chunk_id,
                source_idx |-> chunks[points[k][1]].source_idx,
                chunk_length |-> chunks[points[k][1]].length,
                chunk_type |-> chunks[points[k][1]].chunk_type,
                relevance_score |-> points[k][2]]]
            : points \in {ps \in [1..n -> (DOMAIN chunks) \X Scores] :
                             IsQueryResult(ps, chunks, stored)}}
           : n \in 0..Min(Min(MaxRelevant, QUERY_LIMIT), Len(chunks))}

\* lines 324-329: source_chunks, the returned chunks grouped by source_idx, the
\* groups in order of first appearance
RECURSIVE GroupBySource(_, _)
GroupBySource(chunks, groups) ==
    IF chunks = <<>> THEN groups
    ELSE LET c == Head(chunks)
         IN IF \E g \in DOMAIN groups : groups[g].source_idx = c.source_idx
            THEN GroupBySource(Tail(chunks),
                     [g \in DOMAIN groups |->
                        IF groups[g].source_idx = c.source_idx
                        THEN [groups[g] EXCEPT !.chunks = Append(@, c)]
                        ELSE groups[g]])
            ELSE GroupBySource(Tail(chunks),
                     Append(groups, [source_idx |-> c.source_idx, chunks |-> <<c>>]))

ScoreSum(chunks) == SumSeq([k \in DOMAIN chunks |-> chunks[k].relevance_score])

\* mean relevance of group a >= mean relevance of group b
MeanAtLeast(a, b) ==
    ScoreSum(a.chunks) * Len(b.chunks) >= ScoreSum(b.chunks) * Len(a.chunks)

\* faulty variant: the groups stay in order of first appearance
SortSourcesDesc_Unsorted(groups) == groups

\* lines 334-336: sorted(source_chunks.items(), key=mean relevance, reverse=True)
RECURSIVE SortSourcesDesc(_)
SortSourcesDesc(groups) ==
    IF groups = <<>> THEN <<>>
    ELSE LET best == MinOf({i \in DOMAIN groups :
                              \A j \in DOMAIN groups : MeanAtLeast(groups[i], groups[j])})
         IN <<groups[best]>>
            \o SortSourcesDesc([k \in 1..(Len(groups) - 1) |->
                                  IF k < best THEN groups[k] ELSE groups[k + 1]])

\* len('\n\n'.join(chunk texts))
CombinedLen(chunks) == JoinedLen([k \in DOMAIN chunks |-> chunks[k].chunk_length])

\* faulty variant: the allocation ignores the remaining budget
MaxAllocation_Unbounded(combined_len, remaining_budget, sources_left) ==
    combined_len

\* line 347
MaxAllocation(combined_len, remaining_budget, sources_left) ==
    Min(combined_len, remaining_budget \div Max(sources_left, 1))

\* lines 338-368: the loop over sorted_sources
RECURSIVE ReconstructFrom(_, _, _, _, _)
ReconstructFrom(sorted_sources, k, used_chars, optimized_results, budget) ==
    IF k > Len(sorted_sources) \/ used_chars >= budget THEN optimized_results
    ELSE LET chunks == sorted_sources[k].chunks
             max_allocation == MaxAllocation(CombinedLen(chunks), budget - used_chars,
                                             Len(sorted_sources) - Len(optimized_results))
         IN IF max_allocation < 100 THEN optimized_results
            ELSE ReconstructFrom(sorted_sources, k + 1, used_chars + max_allocation,
                     Append(optimized_results,
                            [source_idx |-> sorted_sources[k].source_idx,
                             content_len |-> max_allocation,
                             combined_len |-> CombinedLen(chunks),
                             chunk_ids |-> [c \in DOMAIN chunks |-> chunks[c].chunk_id],
                             chunk_count |-> Len(chunks),
                             score_sum |-> ScoreSum(chunks),
                             source_type |-> "enhanced_vector_optimized"]),
                     budget)

\* faulty variant: with no relevant chunk the original sources are returned
_reconstruct_optimized_results_OriginalsWhenEmpty(chunks, budget) ==
    IF chunks = <<>> THEN scraped_results
    ELSE ReconstructFrom(SortSourcesDesc(GroupBySource(chunks, <<>>)), 1, 0, <<>>, budget)

_reconstruct_optimized_results(chunks, budget) ==
    ReconstructFrom(SortSourcesDesc(GroupBySource(chunks, <<>>)), 1, 0, <<>>, budget)

\* line 370: the log line divides by target_budget
ReconstructRaises(budget) == budget = 0

\* faulty variant: the handler returns an empty list
OnException_Nothing(results) == [kind |-> "original", results |-> <<>>]

\* lines 61-62 and 124: return scraped_results
OnException(results) == [kind |-> "original", results |-> results]

\* faulty variant: the exception handler schedules no cleanup
CleanupScheduled_OnSuccessOnly(path) ==
    IF path = "success" THEN "scheduled" ELSE "none"

\* lines 117 and 123: asyncio.create_task(_cleanup_temp_collection_background(...))
CleanupScheduled(path) == "scheduled"

NoReturn == [kind |-> "none", results |-> <<>>]

IdleOptimizer ==
    /\ scraped_results = <<>>
    /\ target_budget = 0
    /\ collection = "absent"
    /\ collection_task = "none"
    /\ chunking_task = "none"
    /\ all_chunks = <<>>
    /\ stored_chunks = {}
    /\ relevant_chunks = <<>>
    /\ opt_error = ""
    /\ opt_out = NoReturn
    /\ op_pc = "idle"
    /\ cleanup_pc = "none"

InitOptimizer ==
    /\ scraped_results \in OptimizerInputs
    /\ target_budget \in Budgets
    /\ collection = "absent"
    /\ collection_task = "none"
    /\ chunking_task = "none"
    /\ all_chunks = <<>>
    /\ stored_chunks = {}
    /\ relevant_chunks = <<>>
    /\ opt_error = ""
    /\ opt_out = NoReturn
    /\ op_pc = "called"
    /\ cleanup_pc = "none"

\* lines 61-62: nothing to optimize
OptimizeEmpty ==
    /\ op_pc = "called"
    /\ scraped_results = <<>>
    /\ opt_out' = OnException(scraped_results)
    /\ op_pc' = "returned"
    /\ UNCHANGED <<scraped_results, target_budget, collection, collection_task,
                   chunking_task, all_chunks, stored_chunks, relevant_chunks, opt_error,
                   cleanup_pc>>
    /\ UNCHANGED <<varsExecutor, varsRace, varsSearch, varsRanker, varsDdg, varsPipeline, varsSessions, varsCrawler, varsQuality, varsLifecycle, varsRetry, varsWarm, varsKeys>>

\* lines 82-85: both tasks of phase 1 are created, gather awaits them
StartPhase1 ==
    /\ op_pc = "called"
    /\ scraped_results # <<>>
    /\ collection_task' = "running"
    /\ chunking_task' = "running"
    /\ op_pc' = "phase1"
    /\ UNCHANGED <<scraped_results, target_budget, collection, all_chunks, stored_chunks,
                   relevant_chunks, opt_error, opt_out, cleanup_pc>>
    /\ UNCHANGED <<varsExecutor, varsRace, varsSearch, varsRanker, varsDdg, varsPipeline, varsSessions, varsCrawler, varsQuality, varsLifecycle, varsRetry, varsWarm, varsKeys>>

\* _create_temp_collection: the task runs on whether or not gather still waits
CreateCompletes ==
    /\ collection_task = "running"
    /\ collection' = "exists"
    /\ collection_task' = "done"
    /\ UNCHANGED <<scraped_results, target_budget, chunking_task, all_chunks,
                   stored_chunks, relevant_chunks, opt_error, opt_out, op_pc, cleanup_pc>>
    /\ UNCHANGED <<varsExecutor, varsRace, varsSearch, varsRanker, varsDdg, varsPipeline, varsSessions, varsCrawler, varsQuality, varsLifecycle, varsRetry, varsWarm, varsKeys>>

CreateFails ==
    /\ collection_task = "running"
    /\ collection_task' = "failed"
    /\ UNCHANGED <<scraped_results, target_budget, collection, chunking_task, all_chunks,
                   stored_chunks, relevant_chunks, opt_error, opt_out, op_pc, cleanup_pc>>
    /\ UNCHANGED <<varsExecutor, varsRace, varsSearch, varsRanker, varsDdg, varsPipeline, varsSessions, varsCrawler, varsQuality, varsLifecycle, varsRetry, varsWarm, varsKeys>>

\* _chunk_scraped_results_parallel
ChunkingCompletes ==
    /\ chunking_task = "running"
    /\ chunking_task' = "done"
    /\ all_chunks' = IF op_pc = "phase1" THEN _chunk_scraped_results_sync(scraped_results)
                     ELSE all_chunks
    /\ UNCHANGED <<scraped_results, target_budget, collection, collection_task,
                   stored_chunks, relevant_chunks, opt_error, opt_out, op_pc, cleanup_pc>>
    /\ UNCHANGED <<varsExecutor, varsRace, varsSearch, varsRanker, varsDdg, varsPipeline, varsSessions, varsCrawler, varsQuality, varsLifecycle, varsRetry, varsWarm, varsKeys>>

ChunkingFails ==
    /\ chunking_task = "running"
    /\ chunking_task' = "failed"
    /\ UNCHANGED <<scraped_results, target_budget, collection, collection_task, all_chunks,
                   stored_chunks, relevant_chunks, opt_error, opt_out, op_pc, cleanup_pc>>
    /\ UNCHANGED <<varsExecutor, varsRace, varsSearch, varsRanker, varsDdg, varsPipeline, varsSessions, varsCrawler, varsQuality, varsLifecycle, varsRetry, varsWarm, varsKeys>>

\* line 85: gather returns once both tasks are done
GatherPhase1Returns ==
    /\ op_pc = "phase1"
    /\ collection_task = "done"
    /\ chunking_task = "done"
    /\ op_pc' = "embed"
    /\ UNCHANGED <<scraped_results, target_budget, collection, collection_task,
                   chunking_task, all_chunks, stored_chunks, relevant_chunks, opt_error,
                   opt_out, cleanup_pc>>
    /\ UNCHANGED <<varsExecutor, varsRace, varsSearch, varsRanker, varsDdg, varsPipeline, varsSessions, varsCrawler, varsQuality, varsLifecycle, varsRetry, varsWarm, varsKeys>>

\* line 85 and 121-124: gather raises the first exception of either task, while
\* the other task may still be running
GatherPhase1Raises ==
    /\ op_pc = "phase1"
    /\ collection_task = "failed" \/ chunking_task = "failed"
    /\ opt_error' = IF collection_task = "failed" THEN "create" ELSE "chunk"
    /\ opt_out' = OnException(scraped_results)
    /\ cleanup_pc' = CleanupScheduled("exception")
    /\ op_pc' = "returned"
    /\ UNCHANGED <<scraped_results, target_budget, collection, collection_task,
                   chunking_task, all_chunks, stored_chunks, relevant_chunks>>
    /\ UNCHANGED <<varsExecutor, varsRace, varsSearch, varsRanker, varsDdg, varsPipeline, varsSessions, varsCrawler, varsQuality, varsLifecycle, varsRetry, varsWarm, varsKeys>>

\* line 93: _generate_embeddings_parallel
Embed ==
    /\ op_pc = "embed"
    /\ op_pc' = "store"
    /\ UNCHANGED <<scraped_results, target_budget, collection, collection_task,
                   chunking_task, all_chunks, stored_chunks, relevant_chunks, opt_error,
                   opt_out, cleanup_pc>>
    /\ UNCHANGED <<varsExecutor, varsRace, varsSearch, varsRanker, varsDdg, varsPipeline, varsSessions, varsCrawler, varsQuality, varsLifecycle, varsRetry, varsWarm, varsKeys>>

\* line 94: _store_chunks_parallel; no upsert when there is no chunk
Store ==
    /\ op_pc = "store"
    /\ stored_chunks' = {all_chunks[k].chunk_id : k \in DOMAIN all_chunks}
    /\ op_pc' = "query"
    /\ UNCHANGED <<scraped_results, target_budget, collection, collection_task,
                   chunking_task, all_chunks, relevant_chunks, opt_error, opt_out,
                   cleanup_pc>>
    /\ UNCHANGED <<varsExecutor, varsRace, varsSearch, varsRanker, varsDdg, varsPipeline, varsSessions, varsCrawler, varsQuality, varsLifecycle, varsRetry, varsWarm, varsKeys>>

\* line 100: _query_relevant_chunks_fixed
Query ==
    /\ op_pc = "query"
    /\ relevant_chunks' \in QueryResults(all_chunks, stored_chunks)
    /\ op_pc' = "reconstruct"
    /\ UNCHANGED <<scraped_results, target_budget, collection, collection_task,
                   chunking_task, all_chunks, stored_chunks, opt_error, opt_out,
                   cleanup_pc>>
    /\ UNCHANGED <<varsExecutor, varsRace, varsSearch, varsRanker, varsDdg, varsPipeline, varsSessions, varsCrawler, varsQuality, varsLifecycle, varsRetry, varsWarm, varsKeys>>

\* lines 93-100 raising, then 121-124
StepRaises ==
    /\ op_pc \in {"embed", "store", "query"}
    /\ opt_error' = op_pc
    /\ opt_out' = OnException(scraped_results)
    /\ cleanup_pc' = CleanupScheduled("exception")
    /\ op_pc' = "returned"
    /\ UNCHANGED <<scraped_results, target_budget, collection, collection_task,
                   chunking_task, all_chunks, stored_chunks, relevant_chunks>>
    /\ UNCHANGED <<varsExecutor, varsRace, varsSearch, varsRanker, varsDdg, varsPipeline, varsSessions, varsCrawler, varsQuality, varsLifecycle, varsRetry, varsWarm, varsKeys>>

\* lines 104-119: reconstruction, metadata on the new records, cleanup scheduled
Reconstruct ==
    /\ op_pc = "reconstruct"
    /\ ~ReconstructRaises(target_budget)
    /\ opt_out' = [kind |-> "optimized",
                   results |-> _reconstruct_optimized_results(relevant_chunks,
                                                              target_budget)]
    /\ cleanup_pc' = CleanupScheduled("success")
    /\ op_pc' = "returned"
    /\ UNCHANGED <<scraped_results, target_budget, collection, collection_task,
                   chunking_task, all_chunks, stored_chunks, relevant_chunks, opt_error>>
    /\ UNCHANGED <<varsExecutor, varsRace, varsSearch, varsRanker, varsDdg, varsPipeline, varsSessions, varsCrawler, varsQuality, varsLifecycle, varsRetry, varsWarm, varsKeys>>

\* line 104 raising at line 370, then 121-124
ReconstructFails ==
    /\ op_pc = "reconstruct"
    /\ ReconstructRaises(target_budget)
    /\ opt_error' = "reconstruct"
    /\ opt_out' = OnException(scraped_results)
    /\ cleanup_pc' = CleanupScheduled("exception")
    /\ op_pc' = "returned"
    /\ UNCHANGED <<scraped_results, target_budget, collection, collection_task,
                   chunking_task, all_chunks, stored_chunks, relevant_chunks>>
    /\ UNCHANGED <<varsExecutor, varsRace, varsSearch, varsRanker, varsDdg, varsPipeline, varsSessions, varsCrawler, varsQuality, varsLifecycle, varsRetry, varsWarm, varsKeys>>

\* _cleanup_temp_collection_background, lines 376-380: after the sleep, the
\* existence check
CleanupChecks ==
    /\ cleanup_pc = "scheduled"
    /\ op_pc = "returned"
    /\ cleanup_pc' = IF collection = "exists" THEN "deleting" ELSE "done"
    /\ UNCHANGED <<scraped_results, target_budget, collection, collection_task,
                   chunking_task, all_chunks, stored_chunks, relevant_chunks, opt_error,
                   opt_out, op_pc>>
    /\ UNCHANGED <<varsExecutor, varsRace, varsSearch, varsRanker, varsDdg, varsPipeline, varsSessions, varsCrawler, varsQuality, varsLifecycle, varsRetry, varsWarm, varsKeys>>

\* line 381: delete_collection
CleanupDeletes ==
    /\ cleanup_pc = "deleting"
    /\ collection' = "deleted"
    /\ stored_chunks' = {}
    /\ cleanup_pc' = "done"
    /\ UNCHANGED <<scraped_results, target_budget, collection_task, chunking_task,
                   all_chunks, relevant_chunks, opt_error, opt_out, op_pc>>
    /\ UNCHANGED <<varsExecutor, varsRace, varsSearch, varsRanker, varsDdg, varsPipeline, varsSessions, varsCrawler, varsQuality, varsLifecycle, varsRetry, varsWarm, varsKeys>>

\* lines 383-384: a call of the cleanup raised; the exception is logged and dropped
CleanupRaises ==
    /\ cleanup_pc \in {"scheduled", "deleting"}
    /\ op_pc = "returned"
    /\ cleanup_pc' = "done"
    /\ UNCHANGED <<scraped_results, target_budget, collection, collection_task,
                   chunking_task, all_chunks, stored_chunks, relevant_chunks, opt_error,
                   opt_out, op_pc>>
    /\ UNCHANGED <<varsExecutor, varsRace, varsSearch, varsRanker, varsDdg, varsPipeline, varsSessions, varsCrawler, varsQuality, varsLifecycle, varsRetry, varsWarm, varsKeys>>

NextOptimizer ==
    \/ OptimizeEmpty
    \/ StartPhase1
    \/ CreateCompletes
    \/ CreateFails
    \/ ChunkingCompletes
    \/ ChunkingFails
    \/ GatherPhase1Returns
    \/ GatherPhase1Raises
    \/ Embed
    \/ Store
    \/ Query
    \/ StepRaises
    \/ Reconstruct
    \/ ReconstructFails
    \/ CleanupChecks
    \/ CleanupDeletes
    \/ CleanupRaises

----------------------------------------------------------------------------
(* search_engine.py: search_duckduckgo *)

max_retries == 3

\* the URLs the search collaborator answers with: scheme, extension and site are
\* what is_valid_url looks at; "" stands for a missing href
DdgUrls ==
    { [href |-> "https://example.com/a", scheme |-> "https", ext |-> "", site |-> "example.com"],
      [href |-> "ftp://example.com/a", scheme |-> "ftp", ext |-> "", site |-> "example.com"],
      [href |-> "https://example.com/a.pdf", scheme |-> "https", ext |-> ".pdf", site |-> "example.com"],
      [href |-> "https://tiktok.com/a", scheme |-> "https", ext |-> "", site |-> "tiktok.com"],
      [href |-> "", scheme |-> "", ext |-> "", site |-> ""] }

skip_extensions == {".pdf", ".doc", ".zip", ".jpg"}

skip_sites == {"tiktok.com"}

\* is_valid_url
is_valid_url(url) ==
    /\ url.href # ""
    /\ url.scheme \in {"http", "https"}
    /\ url.ext \notin skip_extensions
    /\ url.site \notin skip_sites

\* line 77: if clean_result['url'] and is_valid_url(clean_result['url'])
KeepsEntry(url) == url.href # "" /\ is_valid_url(url)

\* what ddgs.text returns when it does not raise
DdgReplies == UNION {[1..n -> DdgUrls] : n \in 0..MaxReply}

\* lines 69-78: the entries of a reply that are appended to results
CleanResults(reply) ==
    LET kept == SelectSeq(reply, KeepsEntry)
    IN [k \in DOMAIN kept |-> [url |-> kept[k].href, source |-> "duckduckgo"]]

\* faulty variant: the retry loop never breaks
BreaksAfterAttempt_Never(found) == FALSE

\* lines 81-82: if results: break
BreaksAfterAttempt(found) == found # <<>>

NoReply == <<>>

NoDdgOut == [kind |-> "none", results |-> <<>>]

IdleDdg ==
    /\ ddg_pc = "idle"
    /\ ddg_attempt = 0
    /\ ddg_reply = NoReply
    /\ ddg_results = <<>>
    /\ ddg_log = <<>>
    /\ ddg_out = NoDdgOut

\* lines 52-56: results = [], the first attempt begins
InitDdg ==
    /\ ddg_pc = "attempting"
    /\ ddg_attempt = 0
    /\ ddg_reply = NoReply
    /\ ddg_results = <<>>
    /\ ddg_log = <<>>
    /\ ddg_out = NoDdgOut

\* lines 56-82: the collaborator answers, the valid entries are appended; the loop
\* breaks if results is not empty, else goes to the next attempt; after the last
\* attempt the function returns results (line 92)
AttemptReturns ==
    /\ ddg_pc = "attempting"
    /\ ddg_attempt < max_retries
    /\ \E reply \in DdgReplies :
          LET found == ddg_results \o CleanResults(reply)
          IN /\ ddg_reply' = reply
             /\ ddg_results' = found
             /\ ddg_log' = Append(ddg_log, [raised |-> FALSE,
                                            valid |-> Len(CleanResults(reply))])
             /\ IF BreaksAfterAttempt(found) \/ ddg_attempt + 1 >= max_retries
                THEN /\ ddg_pc' = "returned"
                     /\ ddg_out' = [kind |-> "list", results |-> found]
                     /\ UNCHANGED ddg_attempt
                ELSE /\ ddg_attempt' = ddg_attempt + 1
                     /\ UNCHANGED <<ddg_pc, ddg_out>>
    /\ UNCHANGED <<varsExecutor, varsRace, varsSearch, varsRanker, varsOptimizer, varsPipeline, varsSessions, varsCrawler, varsQuality, varsLifecycle, varsRetry, varsWarm, varsKeys>>

\* lines 84-87: the attempt raised and another attempt is left: time.sleep(1)
AttemptRaises ==
    /\ ddg_pc = "attempting"
    /\ ddg_attempt < max_retries - 1
    /\ ddg_log' = Append(ddg_log, [raised |-> TRUE, valid |-> 0])
    /\ ddg_reply' = NoReply
    /\ ddg_pc' = "sleeping"
    /\ UNCHANGED <<ddg_attempt, ddg_results, ddg_out>>
    /\ UNCHANGED <<varsExecutor, varsRace, varsSearch, varsRanker, varsOptimizer, varsPipeline, varsSessions, varsCrawler, varsQuality, varsLifecycle, varsRetry, varsWarm, varsKeys>>

\* the sleep ends, the next attempt begins
SleepEnds ==
    /\ ddg_pc = "sleeping"
    /\ ddg_attempt' = ddg_attempt + 1
    /\ ddg_pc' = "attempting"
    /\ UNCHANGED <<ddg_reply, ddg_results, ddg_log, ddg_out>>
    /\ UNCHANGED <<varsExecutor, varsRace, varsSearch, varsRanker, varsOptimizer, varsPipeline, varsSessions, varsCrawler, varsQuality, varsLifecycle, varsRetry, varsWarm, varsKeys>>

\* lines 88-89 and 94-96: the last attempt raised, the exception is re-raised,
\* caught by the outer handler, and the function returns []
LastAttemptRaises ==
    /\ ddg_pc = "attempting"
    /\ ddg_attempt = max_retries - 1
    /\ ddg_log' = Append(ddg_log, [raised |-> TRUE, valid |-> 0])
    /\ ddg_reply' = NoReply
    /\ ddg_pc' = "returned"
    /\ ddg_out' = [kind |-> "list", results |-> <<>>]
    /\ UNCHANGED <<ddg_attempt, ddg_results>>
    /\ UNCHANGED <<varsExecutor, varsRace, varsSearch, varsRanker, varsOptimizer, varsPipeline, varsSessions, varsCrawler, varsQuality, varsLifecycle, varsRetry, varsWarm, varsKeys>>

NextDdg ==
    \/ AttemptReturns
    \/ AttemptRaises
    \/ SleepEnds
    \/ LastAttemptRaises

----------------------------------------------------------------------------
(* scraper.py: search_and_scrape_complete, the pipeline run *)

\* what search_web_enhanced hands to the run: lists of search results, by kind
PipelineSearchOutputs ==
    {[i \in DOMAIN ks |-> SearchResult(i, ks[i])] :
        ks \in {<<>>, <<1>>, <<2>>, <<3>>, <<1, 2>>, <<3, 1>>, <<2, 2>>}}

\* the answers of the ranking collaborator the run is taken through
PipelineOutputs(n) ==
    {o \in JsonOutputs(n) : /\ Len(o.url_rankings) <= 1
                            /\ ~BuildRaises(o.url_rankings)
                            /\ o.enhanced_chars \in {0, 60}}

RankPaths == {"unavailable", "raised", "unparsable", "parsed"}

\* rank_urls_with_enhanced_query as the run calls it: the (ranked_urls,
\* enhanced_query) pairs it can return on a path
RankerReturns(path, results, query) ==
    IF path \in {"unavailable", "raised"}
    THEN {[ranked_urls |-> simple_rank_urls_with_methods(results, query),
           enhanced_query |-> _simple_query_enhancement(query)]}
    ELSE IF path = "unparsable"
    THEN {[ranked_urls |-> simple_rank_urls_with_methods(urls_to_rank(results), query),
           enhanced_query |-> _simple_query_enhancement(query)]}
    ELSE {[ranked_urls |->
              _finalize_combined_ranking(
                  _build_ranked_results_from_combined(o.url_rankings, urls_to_rank(results)),
                  urls_to_rank(results)),
           enhanced_query |-> ParsedEnhancedQuery(o, query)]
            : o \in PipelineOutputs(Len(urls_to_rank(results)))}

\* url_data of the executor: url = url_data['url'],
\* suggested_method = url_data.get('suggested_method', 'beautifulsoup')
UrlData(ranked) ==
    [k \in DOMAIN ranked |->
        [url |-> ranked[k].host, suggested_method |-> ranked[k].suggested_method]]

NoPipelineReturn == [shape |-> "none", results |-> <<>>, enhanced_query |-> NoEnhancedQuery]

\* `return []`
ReturnsList == [shape |-> "list", results |-> <<>>, enhanced_query |-> NoEnhancedQuery]

\* `return final_results, enhanced_query`
ReturnsPair(final, query) == [shape |-> "pair", results |-> final, enhanced_query |-> query]

IdlePipeline ==
    /\ pl_pc = "idle"
    /\ pl_query = NoQuery
    /\ pl_required = 0
    /\ pl_search_results = <<>>
    /\ pl_rank_path = ""
    /\ pl_enhanced_query = NoEnhancedQuery
    /\ pl_return = NoPipelineReturn

InitPipeline ==
    /\ pl_pc = "called"
    /\ pl_query \in Queries
    /\ pl_required \in 1..MaxRequired
    /\ pl_search_results = <<>>
    /\ pl_rank_path = ""
    /\ pl_enhanced_query = NoEnhancedQuery
    /\ pl_return = NoPipelineReturn

\* lines 319-323: warmup, then search_web_enhanced returns
PipelineSearch ==
    /\ pl_pc = "called"
    /\ pl_search_results' \in PipelineSearchOutputs
    /\ pl_pc' = "searched"
    /\ UNCHANGED <<pl_query, pl_required, pl_rank_path, pl_enhanced_query, pl_return>>
    /\ UNCHANGED <<varsExecutor, varsRace, varsSearch, varsRanker, varsOptimizer, varsDdg, varsSessions, varsCrawler, varsQuality, varsLifecycle, varsRetry, varsWarm, varsKeys>>

\* lines 324-326: no search results
PipelineNoResults ==
    /\ pl_pc = "searched"
    /\ pl_search_results = <<>>
    /\ pl_return' = ReturnsList
    /\ pl_pc' = "returned"
    /\ UNCHANGED <<pl_query, pl_required, pl_search_results, pl_rank_path,
                   pl_enhanced_query>>
    /\ UNCHANGED <<varsExecutor, varsRace, varsSearch, varsRanker, varsOptimizer, varsDdg, varsSessions, varsCrawler, varsQuality, varsLifecycle, varsRetry, varsWarm, varsKeys>>

\* lines 329-347: the ranker returns; with no ranked result the run returns [],
\* else the executor loop is entered
PipelineRank ==
    /\ pl_pc = "searched"
    /\ pl_search_results # <<>>
    /\ \E path \in RankPaths :
       \E ret \in RankerReturns(path, pl_search_results, pl_query) :
          /\ pl_rank_path' = path
          /\ pl_enhanced_query' = ret.enhanced_query
          /\ IF ret.ranked_urls = <<>>
             THEN /\ pl_return' = ReturnsList
                  /\ pl_pc' = "returned"
                  /\ UNCHANGED varsExecutor
             ELSE /\ pl_pc' = "scraping"
                  /\ ranked_results' = UrlData(ret.ranked_urls)
                  /\ required_results' = pl_required
                  /\ final_results' = <<>>
                  /\ processed_urls' = 0
                  /\ end_idx' = 0
                  /\ ex_pc' = "loop"
                  /\ proc' = [i \in DOMAIN ret.ranked_urls |-> "idle"]
                  /\ batch_results' = [i \in DOMAIN ret.ranked_urls |-> None]
                  /\ UNCHANGED pl_return
    /\ UNCHANGED <<pl_query, pl_required, pl_search_results>>
    /\ UNCHANGED <<varsRace, varsSearch, varsRanker, varsOptimizer, varsDdg, varsSessions, varsCrawler, varsQuality, varsLifecycle, varsRetry, varsWarm, varsKeys>>

\* lines 406-412: the loop has ended; shutdown (its exception is dropped), return
PipelineReturns ==
    /\ pl_pc = "scraping"
    /\ ex_pc = "done"
    /\ pl_return' = ReturnsPair(final_results, pl_enhanced_query)
    /\ pl_pc' = "returned"
    /\ UNCHANGED <<pl_query, pl_required, pl_search_results, pl_rank_path,
                   pl_enhanced_query>>
    /\ UNCHANGED <<varsExecutor, varsRace, varsSearch, varsRanker, varsOptimizer, varsDdg, varsSessions, varsCrawler, varsQuality, varsLifecycle, varsRetry, varsWarm, varsKeys>>

NextPipeline ==
    \/ PipelineSearch
    \/ PipelineNoResults
    \/ PipelineRank
    \/ NextExecutor
    \/ PipelineReturns

----------------------------------------------------------------------------
(* scraped_data_optimizer.py: concurrent optimize_scraped_results calls on the *)
(* singleton optimizer, which share one index client                          *)

\* two calls in flight in the same event loop
Invocations == {"A", "B"}

\* the values str(uuid.uuid4())[:8] can take: eight hexadecimal digits of a
\* random UUID; nothing makes two draws differ
SessionIds == {"3f2a9c1e", "b07d44e2"}

\* f"alice_session_{session_id}"
collection_name(id) == <<"alice_session", id>>

CollectionNames == {collection_name(id) : id \in SessionIds}

Absent == "absent"

\* the request `op` of call c on its collection, with the call that created the
\* collection it reaches
Request(c, op) ==
    [by |-> c, op |-> op, owner |-> index[collection_name(session_id[c])]]

IdleSessions ==
    /\ session_id = <<>>
    /\ call_pc = <<>>
    /\ cleanup_task = <<>>
    /\ index = <<>>
    /\ issued = {}

InitSessions ==
    /\ session_id = [c \in Invocations |-> ""]
    /\ call_pc = [c \in Invocations |-> "called"]
    /\ cleanup_task = [c \in Invocations |-> "none"]
    /\ index = [n \in CollectionNames |-> Absent]
    /\ issued = {}

\* lines 64-65: session_id = str(uuid.uuid4())[:8]; collection_name = ...
DrawSessionId(c) ==
    /\ call_pc[c] = "called"
    /\ \E id \in SessionIds : session_id' = [session_id EXCEPT ![c] = id]
    /\ call_pc' = [call_pc EXCEPT ![c] = "phase1"]
    /\ UNCHANGED <<cleanup_task, index, issued>>
    /\ UNCHANGED <<varsExecutor, varsRace, varsSearch, varsRanker, varsOptimizer, varsDdg, varsPipeline, varsCrawler, varsQuality, varsLifecycle, varsRetry, varsWarm, varsKeys>>

\* _create_temp_collection: client.create_collection(collection_name, ...); the
\* index refuses a name that exists, the exception reaches the handler of
\* optimize_scraped_results, which schedules the cleanup and returns
CreateCollection(c) ==
    /\ call_pc[c] = "phase1"
    /\ IF index[collection_name(session_id[c])] = Absent
       THEN /\ index' = [index EXCEPT ![collection_name(session_id[c])] = c]
            /\ call_pc' = [call_pc EXCEPT ![c] = "store"]
            /\ UNCHANGED cleanup_task
       ELSE /\ call_pc' = [call_pc EXCEPT ![c] = "returned"]
            /\ cleanup_task' = [cleanup_task EXCEPT ![c] = "scheduled"]
            /\ UNCHANGED index
    /\ UNCHANGED <<session_id, issued>>
    /\ UNCHANGED <<varsExecutor, varsRace, varsSearch, varsRanker, varsOptimizer, varsDdg, varsPipeline, varsCrawler, varsQuality, varsLifecycle, varsRetry, varsWarm, varsKeys>>

\* _store_chunks_parallel: client.upsert(collection_name, points); a collection
\* that is gone makes the request raise
Upsert(c) ==
    /\ call_pc[c] = "store"
    /\ IF index[collection_name(session_id[c])] # Absent
       THEN /\ issued' = issued \cup {Request(c, "upsert")}
            /\ call_pc' = [call_pc EXCEPT ![c] = "query"]
            /\ UNCHANGED cleanup_task
       ELSE /\ call_pc' = [call_pc EXCEPT ![c] = "returned"]
            /\ cleanup_task' = [cleanup_task EXCEPT ![c] = "scheduled"]
            /\ UNCHANGED issued
    /\ UNCHANGED <<session_id, index>>
    /\ UNCHANGED <<varsExecutor, varsRace, varsSearch, varsRanker, varsOptimizer, varsDdg, varsPipeline, varsCrawler, varsQuality, varsLifecycle, varsRetry, varsWarm, varsKeys>>

\* _query_relevant_chunks_fixed: client.query_points(collection_name=...), then
\* the reconstruction; on either outcome the cleanup is scheduled and the call
\* returns
QueryPoints(c) ==
    /\ call_pc[c] = "query"
    /\ IF index[collection_name(session_id[c])] # Absent
       THEN issued' = issued \cup {Request(c, "query")}
       ELSE UNCHANGED issued
    /\ call_pc' = [call_pc EXCEPT ![c] = "returned"]
    /\ cleanup_task' = [cleanup_task EXCEPT ![c] = "scheduled"]
    /\ UNCHANGED <<session_id, index>>
    /\ UNCHANGED <<varsExecutor, varsRace, varsSearch, varsRanker, varsOptimizer, varsDdg, varsPipeline, varsCrawler, varsQuality, varsLifecycle, varsRetry, varsWarm, varsKeys>>

\* a step between the requests raises (chunking, embedding): the handler
\* schedules the cleanup and the call returns
CallStepRaises(c) ==
    /\ call_pc[c] \in {"store", "query"}
    /\ call_pc' = [call_pc EXCEPT ![c] = "returned"]
    /\ cleanup_task' = [cleanup_task EXCEPT ![c] = "scheduled"]
    /\ UNCHANGED <<session_id, index, issued>>
    /\ UNCHANGED <<varsExecutor, varsRace, varsSearch, varsRanker, varsOptimizer, varsDdg, varsPipeline, varsCrawler, varsQuality, varsLifecycle, varsRetry, varsWarm, varsKeys>>

\* _cleanup_temp_collection_background: await sleep(1); exists = collection_exists(name)
CleanupExists(c) ==
    /\ cleanup_task[c] = "scheduled"
    /\ cleanup_task' = [cleanup_task EXCEPT ![c] =
                          IF index[collection_name(session_id[c])] # Absent
                          THEN "deleting" ELSE "done"]
    /\ UNCHANGED <<session_id, call_pc, index, issued>>
    /\ UNCHANGED <<varsExecutor, varsRace, varsSearch, varsRanker, varsOptimizer, varsDdg, varsPipeline, varsCrawler, varsQuality, varsLifecycle, varsRetry, varsWarm, varsKeys>>

\* if exists: client.delete_collection(collection_name); an exception is logged
\* and swallowed
CleanupDeleteCollection(c) ==
    /\ cleanup_task[c] = "deleting"
    /\ IF index[collection_name(session_id[c])] # Absent
       THEN /\ issued' = issued \cup {Request(c, "delete")}
            /\ index' = [index EXCEPT ![collection_name(session_id[c])] = Absent]
       ELSE UNCHANGED <<index, issued>>
    /\ cleanup_task' = [cleanup_task EXCEPT ![c] = "done"]
    /\ UNCHANGED <<session_id, call_pc>>
    /\ UNCHANGED <<varsExecutor, varsRace, varsSearch, varsRanker, varsOptimizer, varsDdg, varsPipeline, varsCrawler, varsQuality, varsLifecycle, varsRetry, varsWarm, varsKeys>>

NextSessions ==
    \E c \in Invocations :
       \/ DrawSessionId(c)
       \/ CreateCollection(c)
       \/ Upsert(c)
       \/ QueryPoints(c)
       \/ CallStepRaises(c)
       \/ CleanupExists(c)
       \/ CleanupDeleteCollection(c)

----------------------------------------------------------------------------
(* crawl4ai_scraper.py: the shared crawler and its lock.  The statements     *)
(* under `async with _crawler_lock` are separate steps here: what holds for  *)
(* a body that may yield holds for the body as written, which never yields.  *)

Callers == {"c1", "c2", "c3"}

CrawlerOps == {"warmup", "shutdown", "scrape"}

NoCrawler == "None"

Free == "free"

\* faulty variant: acquiring the lock never waits
LockFree_Always == TRUE

\* asyncio.Lock.acquire proceeds when the lock is not held
LockFree == _crawler_lock = Free

\* where a caller goes when warmup_crawl4ai returns: scrape_with_crawl4ai goes
\* on to its second `if _global_crawler is None`
AfterWarmup(c) == IF cr_op[c] = "scrape" THEN "scrape_recheck" ELSE "done"

IdleCrawler ==
    /\ crawl4ai_available = FALSE
    /\ _global_crawler = NoCrawler
    /\ _crawler_lock = Free
    /\ cr_op = <<>>
    /\ cr_pc = <<>>
    /\ last_write = <<>>

\* module import: _global_crawler = None; _crawler_lock = asyncio.Lock()
InitCrawler ==
    /\ crawl4ai_available \in BOOLEAN
    /\ _global_crawler = NoCrawler
    /\ _crawler_lock = Free
    /\ cr_op = [c \in Callers |-> "none"]
    /\ cr_pc = [c \in Callers |-> "idle"]
    /\ last_write = [by |-> "import", holder |-> "import"]

\* warmup_crawl4ai is called: `if not CRAWL4AI_AVAILABLE: return False`, else on to
\* `async with _crawler_lock`
CallWarmup(c) ==
    /\ cr_pc[c] = "idle"
    /\ cr_op' = [cr_op EXCEPT ![c] = "warmup"]
    /\ cr_pc' = [cr_pc EXCEPT ![c] = IF crawl4ai_available THEN "warm_lock" ELSE "done"]
    /\ UNCHANGED <<crawl4ai_available, _global_crawler, _crawler_lock, last_write>>
    /\ UNCHANGED <<varsExecutor, varsRace, varsSearch, varsRanker, varsOptimizer, varsDdg, varsPipeline, varsSessions, varsQuality, varsLifecycle, varsRetry, varsWarm, varsKeys>>

\* shutdown_crawl4ai is called: on to `async with _crawler_lock`
CallShutdown(c) ==
    /\ cr_pc[c] = "idle"
    /\ cr_op' = [cr_op EXCEPT ![c] = "shutdown"]
    /\ cr_pc' = [cr_pc EXCEPT ![c] = "shut_lock"]
    /\ UNCHANGED <<crawl4ai_available, _global_crawler, _crawler_lock, last_write>>
    /\ UNCHANGED <<varsExecutor, varsRace, varsSearch, varsRanker, varsOptimizer, varsDdg, varsPipeline, varsSessions, varsQuality, varsLifecycle, varsRetry, varsWarm, varsKeys>>

\* scrape_with_crawl4ai is called: the availability check, then
\* `if _global_crawler is None: await warmup_crawl4ai()`
CallScrape(c) ==
    /\ cr_pc[c] = "idle"
    /\ cr_op' = [cr_op EXCEPT ![c] = "scrape"]
    /\ cr_pc' = [cr_pc EXCEPT ![c] =
                   IF ~crawl4ai_available THEN "done"
                   ELSE IF _global_crawler = NoCrawler THEN "warm_lock"
                   ELSE "scrape_run"]
    /\ UNCHANGED <<crawl4ai_available, _global_crawler, _crawler_lock, last_write>>
    /\ UNCHANGED <<varsExecutor, varsRace, varsSearch, varsRanker, varsOptimizer, varsDdg, varsPipeline, varsSessions, varsQuality, varsLifecycle, varsRetry, varsWarm, varsKeys>>

\* warmup_crawl4ai: `async with _crawler_lock` acquires the lock
WarmupAcquires(c) ==
    /\ cr_pc[c] = "warm_lock"
    /\ LockFree
    /\ _crawler_lock' = c
    /\ cr_pc' = [cr_pc EXCEPT ![c] = "warm_check"]
    /\ UNCHANGED <<crawl4ai_available, _global_crawler, cr_op, last_write>>
    /\ UNCHANGED <<varsExecutor, varsRace, varsSearch, varsRanker, varsOptimizer, varsDdg, varsPipeline, varsSessions, varsQuality, varsLifecycle, varsRetry, varsWarm, varsKeys>>

\* `if _global_crawler is not None: return True` (the lock is released on the way
\* out), else the initialization starts
WarmupChecks(c) ==
    /\ cr_pc[c] = "warm_check"
    /\ IF _global_crawler # NoCrawler
       THEN /\ _crawler_lock' = Free
            /\ cr_pc' = [cr_pc EXCEPT ![c] = AfterWarmup(c)]
       ELSE /\ cr_pc' = [cr_pc EXCEPT ![c] = "warm_create"]
            /\ UNCHANGED _crawler_lock
    /\ UNCHANGED <<crawl4ai_available, _global_crawler, cr_op, last_write>>
    /\ UNCHANGED <<varsExecutor, varsRace, varsSearch, varsRanker, varsOptimizer, varsDdg, varsPipeline, varsSessions, varsQuality, varsLifecycle, varsRetry, varsWarm, varsKeys>>

\* `_global_crawler = AsyncWebCrawler(...)`, or the construction raises and the
\* handler assigns None; the function returns and the lock is released
WarmupCreates(c) ==
    /\ cr_pc[c] = "warm_create"
    /\ _global_crawler' \in {"crawler", NoCrawler}
    /\ last_write' = [by |-> c, holder |-> _crawler_lock]
    /\ _crawler_lock' = Free
    /\ cr_pc' = [cr_pc EXCEPT ![c] = AfterWarmup(c)]
    /\ UNCHANGED <<crawl4ai_available, cr_op>>
    /\ UNCHANGED <<varsExecutor, varsRace, varsSearch, varsRanker, varsOptimizer, varsDdg, varsPipeline, varsSessions, varsQuality, varsLifecycle, varsRetry, varsWarm, varsKeys>>

\* shutdown_crawl4ai: `async with _crawler_lock` acquires the lock
ShutdownAcquires(c) ==
    /\ cr_pc[c] = "shut_lock"
    /\ LockFree
    /\ _crawler_lock' = c
    /\ cr_pc' = [cr_pc EXCEPT ![c] = "shut_clear"]
    /\ UNCHANGED <<crawl4ai_available, _global_crawler, cr_op, last_write>>
    /\ UNCHANGED <<varsExecutor, varsRace, varsSearch, varsRanker, varsOptimizer, varsDdg, varsPipeline, varsSessions, varsQuality, varsLifecycle, varsRetry, varsWarm, varsKeys>>

\* `if _global_crawler is not None: _global_crawler = None`; the lock is released
ShutdownClears(c) ==
    /\ cr_pc[c] = "shut_clear"
    /\ IF _global_crawler # NoCrawler
       THEN /\ _global_crawler' = NoCrawler
            /\ last_write' = [by |-> c, holder |-> _crawler_lock]
       ELSE UNCHANGED <<_global_crawler, last_write>>
    /\ _crawler_lock' = Free
    /\ cr_pc' = [cr_pc EXCEPT ![c] = "done"]
    /\ UNCHANGED <<crawl4ai_available, cr_op>>
    /\ UNCHANGED <<varsExecutor, varsRace, varsSearch, varsRanker, varsOptimizer, varsDdg, varsPipeline, varsSessions, varsQuality, varsLifecycle, varsRetry, varsWarm, varsKeys>>

\* scrape_with_crawl4ai after its warmup: `if _global_crawler is None: return {...}`
ScrapeRechecks(c) ==
    /\ cr_pc[c] = "scrape_recheck"
    /\ cr_pc' = [cr_pc EXCEPT ![c] =
                   IF _global_crawler = NoCrawler THEN "done" ELSE "scrape_run"]
    /\ UNCHANGED <<crawl4ai_available, _global_crawler, _crawler_lock, cr_op, last_write>>
    /\ UNCHANGED <<varsExecutor, varsRace, varsSearch, varsRanker, varsOptimizer, varsDdg, varsPipeline, varsSessions, varsQuality, varsLifecycle, varsRetry, varsWarm, varsKeys>>

\* the retry loop around `await _global_crawler.arun(...)`: it reads the shared
\* variable and assigns nothing to it
ScrapeRuns(c) ==
    /\ cr_pc[c] = "scrape_run"
    /\ cr_pc' = [cr_pc EXCEPT ![c] = "done"]
    /\ UNCHANGED <<crawl4ai_available, _global_crawler, _crawler_lock, cr_op, last_write>>
    /\ UNCHANGED <<varsExecutor, varsRace, varsSearch, varsRanker, varsOptimizer, varsDdg, varsPipeline, varsSessions, varsQuality, varsLifecycle, varsRetry, varsWarm, varsKeys>>

\* the call has returned; the caller may call again
CallReturns(c) ==
    /\ cr_pc[c] = "done"
    /\ cr_pc' = [cr_pc EXCEPT ![c] = "idle"]
    /\ cr_op' = [cr_op EXCEPT ![c] = "none"]
    /\ UNCHANGED <<crawl4ai_available, _global_crawler, _crawler_lock, last_write>>
    /\ UNCHANGED <<varsExecutor, varsRace, varsSearch, varsRanker, varsOptimizer, varsDdg, varsPipeline, varsSessions, varsQuality, varsLifecycle, varsRetry, varsWarm, varsKeys>>

NextCrawler ==
    \E c \in Callers :
       \/ CallWarmup(c)
       \/ CallShutdown(c)
       \/ CallScrape(c)
       \/ WarmupAcquires(c)
       \/ WarmupChecks(c)
       \/ WarmupCreates(c)
       \/ ShutdownAcquires(c)
       \/ ShutdownClears(c)
       \/ ScrapeRechecks(c)
       \/ ScrapeRuns(c)
       \/ CallReturns(c)

----------------------------------------------------------------------------
(* scraper.py: assess_content_quality, called on its own *)

\* the hosts the gate is called with: those of the race and an .edu host
QualityHosts == Hosts \cup {"mit.edu"}

\* the word counts at and around the length thresholds
QualityWordCounts == {1, 40, 49, 50, 99, 100, 199, 200, 499, 500, 501}

\* content: None, the empty string, whitespace only, or a text of `words` words
QualityContents ==
    {[kind |-> k, words |-> 0] : k \in {"None", "empty", "whitespace"}}
    \cup {[kind |-> "text", words |-> n] : n \in QualityWordCounts}

\* len(content.split()); `not content or not content.strip()` holds exactly for
\* the contents without a word
WordCount(content) == IF content.kind = "text" THEN content.words ELSE 0

NoAssessment == [quality_score |-> -1, quality_tier |-> ""]

IdleQuality ==
    /\ q_content = <<>>
    /\ q_url = ""
    /\ q_out = NoAssessment
    /\ q_pc = "idle"

InitQuality ==
    /\ q_content \in QualityContents
    /\ q_url \in QualityHosts
    /\ q_out = NoAssessment
    /\ q_pc = "called"

\* assess_content_quality(content, url) returns
Assess ==
    /\ q_pc = "called"
    /\ q_out' = assess_content_quality(WordCount(q_content), q_url)
    /\ q_pc' = "returned"
    /\ UNCHANGED <<q_content, q_url>>
    /\ UNCHANGED <<varsExecutor, varsRace, varsSearch, varsRanker, varsOptimizer, varsDdg, varsPipeline, varsSessions, varsCrawler, varsLifecycle, varsRetry, varsWarm, varsKeys>>

NextQuality == Assess

----------------------------------------------------------------------------
(* scraped_data_optimizer.py: the requests one optimize_scraped_results call *)
(* sends to its collection, the upsert batches taken one by one             *)

storage_batch_size == 100

\* the numbers of n_points to store: none, one batch, two batches, three batches
PointCounts == {0, 1, 101, 201}

\* batches = [points[i:i + storage_batch_size] for i in range(0, len(points), ...)]
BatchCount(n) == (n + storage_batch_size - 1) \div storage_batch_size

Issued(op, batch) == [event |-> "issued", op |-> op, batch |-> batch]

Completed(op, batch) == [event |-> "completed", op |-> op, batch |-> batch]

IdleLifecycle ==
    /\ n_points = 0
    /\ upload_tasks = <<>>
    /\ create_task = "idle"
    /\ chunk_task = "idle"
    /\ session_collection = "absent"
    /\ requests = <<>>
    /\ lc_pc = "idle"
    /\ lc_cleanup = "none"

InitLifecycle ==
    /\ n_points \in PointCounts
    /\ upload_tasks = <<>>
    /\ create_task = "idle"
    /\ chunk_task = "idle"
    /\ session_collection = "absent"
    /\ requests = <<>>
    /\ lc_pc = "called"
    /\ lc_cleanup = "none"

\* lines 82-85: both tasks of phase 1 are created, gather awaits them
LcStartPhase1 ==
    /\ lc_pc = "called"
    /\ create_task' = "running"
    /\ chunk_task' = "running"
    /\ requests' = Append(requests, Issued("create", 0))
    /\ lc_pc' = "phase1"
    /\ UNCHANGED <<n_points, upload_tasks, session_collection, lc_cleanup>>
    /\ UNCHANGED <<varsExecutor, varsRace, varsSearch, varsRanker, varsOptimizer, varsDdg, varsPipeline, varsSessions, varsCrawler, varsQuality, varsRetry, varsWarm, varsKeys>>

\* _create_temp_collection returns or raises; the task runs on whether or not
\* gather still waits for it
LcCreateEnds ==
    /\ create_task = "running"
    /\ \/ /\ create_task' = "done"
          /\ session_collection' = "exists"
          /\ requests' = Append(requests, Completed("create", 0))
       \/ /\ create_task' = "failed"
          /\ UNCHANGED <<session_collection, requests>>
    /\ UNCHANGED <<n_points, upload_tasks, chunk_task, lc_pc, lc_cleanup>>
    /\ UNCHANGED <<varsExecutor, varsRace, varsSearch, varsRanker, varsOptimizer, varsDdg, varsPipeline, varsSessions, varsCrawler, varsQuality, varsRetry, varsWarm, varsKeys>>

\* _chunk_scraped_results_parallel returns or raises
LcChunkingEnds ==
    /\ chunk_task = "running"
    /\ chunk_task' \in {"done", "failed"}
    /\ UNCHANGED <<n_points, upload_tasks, create_task, session_collection, requests,
                   lc_pc, lc_cleanup>>
    /\ UNCHANGED <<varsExecutor, varsRace, varsSearch, varsRanker, varsOptimizer, varsDdg, varsPipeline, varsSessions, varsCrawler, varsQuality, varsRetry, varsWarm, varsKeys>>

\* line 85: gather returns once both tasks are done, or raises the exception of
\* the first task that failed (121-124: the cleanup is scheduled, the call returns)
LcGatherPhase1 ==
    /\ lc_pc = "phase1"
    /\ \/ /\ create_task = "done" /\ chunk_task = "done"
          /\ lc_pc' = "embed"
          /\ UNCHANGED lc_cleanup
       \/ /\ create_task = "failed" \/ chunk_task = "failed"
          /\ lc_pc' = "returned"
          /\ lc_cleanup' = "scheduled"
    /\ UNCHANGED <<n_points, upload_tasks, create_task, chunk_task, session_collection,
                   requests>>
    /\ UNCHANGED <<varsExecutor, varsRace, varsSearch, varsRanker, varsOptimizer, varsDdg, varsPipeline, varsSessions, varsCrawler, varsQuality, varsRetry, varsWarm, varsKeys>>

\* line 93: _generate_embeddings_parallel returns, or raises (121-124)
LcEmbed ==
    /\ lc_pc = "embed"
    /\ \/ /\ lc_pc' = "store"
          /\ UNCHANGED lc_cleanup
       \/ /\ lc_pc' = "returned"
          /\ lc_cleanup' = "scheduled"
    /\ UNCHANGED <<n_points, upload_tasks, create_task, chunk_task, session_collection,
                   requests>>
    /\ UNCHANGED <<varsExecutor, varsRace, varsSearch, varsRanker, varsOptimizer, varsDdg, varsPipeline, varsSessions, varsCrawler, varsQuality, varsRetry, varsWarm, varsKeys>>

\* _store_chunks_parallel up to its await: `if len(chunks) == 0: return`, else
\* one upload per batch is handed to the executor (a single batch is awaited
\* directly, several through asyncio.gather)
LcStoreStarts ==
    /\ lc_pc = "store"
    /\ IF n_points = 0
       THEN /\ lc_pc' = "query"
            /\ UNCHANGED upload_tasks
       ELSE /\ upload_tasks' = [b \in 1..BatchCount(n_points) |-> "queued"]
            /\ lc_pc' = "uploading"
    /\ UNCHANGED <<n_points, create_task, chunk_task, session_collection, requests,
                   lc_cleanup>>
    /\ UNCHANGED <<varsExecutor, varsRace, varsSearch, varsRanker, varsOptimizer, varsDdg, varsPipeline, varsSessions, varsCrawler, varsQuality, varsRetry, varsWarm, varsKeys>>

\* an executor thread takes the upload of batch b: client.upsert(collection_name, batch)
LcUpsertIssued(b) ==
    /\ b \in DOMAIN upload_tasks
    /\ upload_tasks[b] = "queued"
    /\ upload_tasks' = [upload_tasks EXCEPT ![b] = "running"]
    /\ requests' = Append(requests, Issued("upsert", b))
    /\ UNCHANGED <<n_points, create_task, chunk_task, session_collection, lc_pc, lc_cleanup>>
    /\ UNCHANGED <<varsExecutor, varsRace, varsSearch, varsRanker, varsOptimizer, varsDdg, varsPipeline, varsSessions, varsCrawler, varsQuality, varsRetry, varsWarm, varsKeys>>

\* the upsert of batch b returns, or raises (it can only raise once the
\* collection is gone)
LcUpsertEnds(b) ==
    /\ b \in DOMAIN upload_tasks
    /\ upload_tasks[b] = "running"
    /\ \/ /\ session_collection = "exists"
          /\ upload_tasks' = [upload_tasks EXCEPT ![b] = "done"]
          /\ requests' = Append(requests, Completed("upsert", b))
       \/ /\ upload_tasks' = [upload_tasks EXCEPT ![b] = "failed"]
          /\ UNCHANGED requests
    /\ UNCHANGED <<n_points, create_task, chunk_task, session_collection, lc_pc, lc_cleanup>>
    /\ UNCHANGED <<varsExecutor, varsRace, varsSearch, varsRanker, varsOptimizer, varsDdg, varsPipeline, varsSessions, varsCrawler, varsQuality, varsRetry, varsWarm, varsKeys>>

\* await asyncio.gather(*upload_tasks) returns when every upload has returned
UploadsDone == \A b \in DOMAIN upload_tasks : upload_tasks[b] = "done"

\* line 94: the await of the uploads returns, or raises the exception of the first
\* upload that failed while the other uploads go on (121-124)
LcStoreEnds ==
    /\ lc_pc = "uploading"
    /\ \/ /\ UploadsDone
          /\ lc_pc' = "query"
          /\ UNCHANGED lc_cleanup
       \/ /\ \E b \in DOMAIN upload_tasks : upload_tasks[b] = "failed"
          /\ lc_pc' = "returned"
          /\ lc_cleanup' = "scheduled"
    /\ UNCHANGED <<n_points, upload_tasks, create_task, chunk_task, session_collection,
                   requests>>
    /\ UNCHANGED <<varsExecutor, varsRace, varsSearch, varsRanker, varsOptimizer, varsDdg, varsPipeline, varsSessions, varsCrawler, varsQuality, varsRetry, varsWarm, varsKeys>>

\* lines 97-119: client.query_points, the reconstruction, the cleanup scheduled
\* and the return; an exception of either step takes 121-124, with the same effect
\* on the collection
LcQuery ==
    /\ lc_pc = "query"
    /\ requests' = Append(requests, Issued("query", 0))
    /\ lc_pc' = "returned"
    /\ lc_cleanup' = "scheduled"
    /\ UNCHANGED <<n_points, upload_tasks, create_task, chunk_task, session_collection>>
    /\ UNCHANGED <<varsExecutor, varsRace, varsSearch, varsRanker, varsOptimizer, varsDdg, varsPipeline, varsSessions, varsCrawler, varsQuality, varsRetry, varsWarm, varsKeys>>

\* _cleanup_temp_collection_background: sleep(1), then collection_exists
LcCleanupChecks ==
    /\ lc_cleanup = "scheduled"
    /\ lc_cleanup' = IF session_collection = "exists" THEN "deleting" ELSE "done"
    /\ UNCHANGED <<n_points, upload_tasks, create_task, chunk_task, session_collection,
                   requests, lc_pc>>
    /\ UNCHANGED <<varsExecutor, varsRace, varsSearch, varsRanker, varsOptimizer, varsDdg, varsPipeline, varsSessions, varsCrawler, varsQuality, varsRetry, varsWarm, varsKeys>>

\* if exists: client.delete_collection(collection_name)
LcCleanupDeletes ==
    /\ lc_cleanup = "deleting"
    /\ requests' = Append(requests, Issued("delete", 0))
    /\ session_collection' = "deleted"
    /\ lc_cleanup' = "done"
    /\ UNCHANGED <<n_points, upload_tasks, create_task, chunk_task, lc_pc>>
    /\ UNCHANGED <<varsExecutor, varsRace, varsSearch, varsRanker, varsOptimizer, varsDdg, varsPipeline, varsSessions, varsCrawler, varsQuality, varsRetry, varsWarm, varsKeys>>

NextLifecycle ==
    \/ LcStartPhase1
    \/ LcCreateEnds
    \/ LcChunkingEnds
    \/ LcGatherPhase1
    \/ LcEmbed
    \/ LcStoreStarts
    \/ \E b \in 1..BatchCount(n_points) : LcUpsertIssued(b)
    \/ \E b \in 1..BatchCount(n_points) : LcUpsertEnds(b)
    \/ LcStoreEnds
    \/ LcQuery
    \/ LcCleanupChecks
    \/ LcCleanupDeletes

----------------------------------------------------------------------------
(* crawl4ai_scraper.py: scrape_with_crawl4ai *)

\* scrape_with_crawl4ai(url, timeout=30, max_retries=2)
crawl4ai_max_retries == 2

\* what one `await _global_crawler.arun(...)` can do: raise, report failure, or
\* succeed with a text of so many words after cleaning
ArunOutcomes ==
    {[kind |-> "raised", words |-> 0], [kind |-> "failed", words |-> 0],
     [kind |-> "success", words |-> 0], [kind |-> "success", words |-> 10],
     [kind |-> "success", words |-> 11]}

\* line 195: len(clean_content.split()) > 10
MeaningfulContent(outcome) == outcome.kind = "success" /\ outcome.words > 10

\* faulty variant: the same pause before every retry
BackoffSeconds_Fixed(attempt) == 2

\* line 213: await asyncio.sleep(2 * (attempt + 1))
BackoffSeconds(attempt) == 2 * (attempt + 1)

Crawl4aiFailure(method, error) ==
    [success |-> FALSE, method |-> method, error |-> error]

NoScrape == [success |-> FALSE, method |-> "", error |-> ""]

IdleRetry ==
    /\ c4_available = FALSE
    /\ c4_crawler = "None"
    /\ c4_attempt = 0
    /\ c4_events = <<>>
    /\ c4_out = NoScrape
    /\ c4_pc = "idle"

InitRetry ==
    /\ c4_available \in BOOLEAN
    /\ c4_crawler \in {"None", "crawler"}
    /\ c4_attempt = 0
    /\ c4_events = <<>>
    /\ c4_out = NoScrape
    /\ c4_pc = "called"

\* lines 142-149
RetryUnavailable ==
    /\ c4_pc = "called"
    /\ ~c4_available
    /\ c4_out' = Crawl4aiFailure("Crawl4AI", "Crawl4AI not available")
    /\ c4_pc' = "returned"
    /\ UNCHANGED <<c4_available, c4_crawler, c4_attempt, c4_events>>
    /\ UNCHANGED <<varsExecutor, varsRace, varsSearch, varsRanker, varsOptimizer, varsDdg, varsPipeline, varsSessions, varsCrawler, varsQuality, varsLifecycle, varsWarm, varsKeys>>

\* lines 154-155: warmup_crawl4ai when no crawler is there; it returns with the
\* crawler created or, when the creation raised, with none
RetryEnsuresWarm ==
    /\ c4_pc = "called"
    /\ c4_available
    /\ IF c4_crawler = "None"
       THEN c4_crawler' \in {"None", "crawler"}
       ELSE c4_crawler' = c4_crawler
    /\ c4_pc' = "warmed"
    /\ UNCHANGED <<c4_available, c4_attempt, c4_events, c4_out>>
    /\ UNCHANGED <<varsExecutor, varsRace, varsSearch, varsRanker, varsOptimizer, varsDdg, varsPipeline, varsSessions, varsCrawler, varsQuality, varsLifecycle, varsWarm, varsKeys>>

\* lines 157-164
RetryWarmupFailed ==
    /\ c4_pc = "warmed"
    /\ c4_crawler = "None"
    /\ c4_out' = Crawl4aiFailure("Crawl4AI", "Crawl4AI warmup failed")
    /\ c4_pc' = "returned"
    /\ UNCHANGED <<c4_available, c4_crawler, c4_attempt, c4_events>>
    /\ UNCHANGED <<varsExecutor, varsRace, varsSearch, varsRanker, varsOptimizer, varsDdg, varsPipeline, varsSessions, varsCrawler, varsQuality, varsLifecycle, varsWarm, varsKeys>>

\* line 167: for attempt in range(max_retries + 1), entered with a crawler
RetryLoopStarts ==
    /\ c4_pc = "warmed"
    /\ c4_crawler # "None"
    /\ c4_attempt' = 0
    /\ c4_pc' = "loop"
    /\ UNCHANGED <<c4_available, c4_crawler, c4_events, c4_out>>
    /\ UNCHANGED <<varsExecutor, varsRace, varsSearch, varsRanker, varsOptimizer, varsDdg, varsPipeline, varsSessions, varsCrawler, varsQuality, varsLifecycle, varsWarm, varsKeys>>

\* lines 168-178: the next attempt awaits arun
RetryAttemptStarts ==
    /\ c4_pc = "loop"
    /\ c4_attempt <= crawl4ai_max_retries
    /\ c4_pc' = "arun"
    /\ UNCHANGED <<c4_available, c4_crawler, c4_attempt, c4_events, c4_out>>
    /\ UNCHANGED <<varsExecutor, varsRace, varsSearch, varsRanker, varsOptimizer, varsDdg, varsPipeline, varsSessions, varsCrawler, varsQuality, varsLifecycle, varsWarm, varsKeys>>

\* lines 180-216: arun is over; a meaningful text is returned, a failed request
\* or a short text goes on to the next attempt at once, an exception goes to
\* the pause while a retry is left
RetryAttemptEnds ==
    /\ c4_pc = "arun"
    /\ \E outcome \in ArunOutcomes :
          /\ c4_events' = Append(c4_events, [kind |-> "attempt", n |-> c4_attempt + 1,
                                             outcome |-> outcome.kind,
                                             words |-> outcome.words, seconds |-> 0])
          /\ IF MeaningfulContent(outcome)
             THEN /\ c4_out' = [success |-> TRUE, method |-> "Crawl4AI-Instant",
                                error |-> ""]
                  /\ c4_pc' = "returned"
                  /\ UNCHANGED c4_attempt
             ELSE IF outcome.kind = "raised" /\ c4_attempt < crawl4ai_max_retries
             THEN /\ c4_pc' = "backoff"
                  /\ UNCHANGED <<c4_attempt, c4_out>>
             ELSE /\ c4_attempt' = c4_attempt + 1
                  /\ c4_pc' = "loop"
                  /\ UNCHANGED c4_out
    /\ UNCHANGED <<c4_available, c4_crawler>>
    /\ UNCHANGED <<varsExecutor, varsRace, varsSearch, varsRanker, varsOptimizer, varsDdg, varsPipeline, varsSessions, varsCrawler, varsQuality, varsLifecycle, varsWarm, varsKeys>>

\* lines 213-214: the pause, then continue
RetryBackoff ==
    /\ c4_pc = "backoff"
    /\ c4_events' = Append(c4_events, [kind |-> "sleep", n |-> c4_attempt + 1,
                                       outcome |-> "", words |-> 0,
                                       seconds |-> BackoffSeconds(c4_attempt)])
    /\ c4_attempt' = c4_attempt + 1
    /\ c4_pc' = "loop"
    /\ UNCHANGED <<c4_available, c4_crawler, c4_out>>
    /\ UNCHANGED <<varsExecutor, varsRace, varsSearch, varsRanker, varsOptimizer, varsDdg, varsPipeline, varsSessions, varsCrawler, varsQuality, varsLifecycle, varsWarm, varsKeys>>

\* lines 218-224: the loop is over
RetryExhausted ==
    /\ c4_pc = "loop"
    /\ c4_attempt > crawl4ai_max_retries
    /\ c4_out' = Crawl4aiFailure("Crawl4AI-Instant",
                     "HTTP request failed or insufficient content after all retries")
    /\ c4_pc' = "returned"
    /\ UNCHANGED <<c4_available, c4_crawler, c4_attempt, c4_events>>
    /\ UNCHANGED <<varsExecutor, varsRace, varsSearch, varsRanker, varsOptimizer, varsDdg, varsPipeline, varsSessions, varsCrawler, varsQuality, varsLifecycle, varsWarm, varsKeys>>

NextRetry ==
    \/ RetryUnavailable
    \/ RetryEnsuresWarm
    \/ RetryWarmupFailed
    \/ RetryLoopStarts
    \/ RetryAttemptStarts
    \/ RetryAttemptEnds
    \/ RetryBackoff
    \/ RetryExhausted

\* line 93 raising: the embedding model failed (not the index service)
EmbedRaises == op_pc = "embed" /\ StepRaises

\* optimize_scraped_results with an index service that does not fail: no
\* create_collection, upsert, query_points, collection_exists or
\* delete_collection raises
NextOptimizerReliable ==
    \/ OptimizeEmpty
    \/ StartPhase1
    \/ CreateCompletes
    \/ ChunkingCompletes
    \/ ChunkingFails
    \/ GatherPhase1Returns
    \/ GatherPhase1Raises
    \/ Embed
    \/ EmbedRaises
    \/ Store
    \/ Query
    \/ Reconstruct
    \/ ReconstructFails
    \/ CleanupChecks
    \/ CleanupDeletes

----------------------------------------------------------------------------
(* scraper.py: ensure_system_warmup and the shutdown at the end of a run *)

\* the pipeline runs: they may overlap or follow one another
Runs == {"run1", "run2", "run3"}

\* warmup_crawl4ai, lines 47-85: the crawler it leaves behind
WarmupResults(available, crawler) ==
    IF ~available THEN {crawler}
    ELSE IF crawler # "None" THEN {crawler}
    ELSE {"crawler", "None"}

IdleWarm ==
    /\ _system_warmed_up = FALSE
    /\ wu_available = FALSE
    /\ wu_crawler = "None"
    /\ run_pc = <<>>

InitWarm ==
    /\ _system_warmed_up = FALSE
    /\ wu_available \in BOOLEAN
    /\ wu_crawler = "None"
    /\ run_pc = [r \in Runs |-> "idle"]

\* search_and_scrape_complete is called
RunStarts(r) ==
    /\ run_pc[r] = "idle"
    /\ run_pc' = [run_pc EXCEPT ![r] = "ensure"]
    /\ UNCHANGED <<_system_warmed_up, wu_available, wu_crawler>>
    /\ UNCHANGED <<varsExecutor, varsRace, varsSearch, varsRanker, varsOptimizer, varsDdg, varsPipeline, varsSessions, varsCrawler, varsQuality, varsLifecycle, varsRetry, varsKeys>>

\* ensure_system_warmup, lines 65-66: the flag is set, nothing to do
EnsureSkips(r) ==
    /\ run_pc[r] = "ensure"
    /\ _system_warmed_up
    /\ run_pc' = [run_pc EXCEPT ![r] = "pipeline"]
    /\ UNCHANGED <<_system_warmed_up, wu_available, wu_crawler>>
    /\ UNCHANGED <<varsExecutor, varsRace, varsSearch, varsRanker, varsOptimizer, varsDdg, varsPipeline, varsSessions, varsCrawler, varsQuality, varsLifecycle, varsRetry, varsKeys>>

\* line 69: await warmup_crawl4ai()
EnsureWarmupBegins(r) ==
    /\ run_pc[r] = "ensure"
    /\ ~_system_warmed_up
    /\ run_pc' = [run_pc EXCEPT ![r] = "warming"]
    /\ UNCHANGED <<_system_warmed_up, wu_available, wu_crawler>>
    /\ UNCHANGED <<varsExecutor, varsRace, varsSearch, varsRanker, varsOptimizer, varsDdg, varsPipeline, varsSessions, varsCrawler, varsQuality, varsLifecycle, varsRetry, varsKeys>>

\* lines 69-72: warmup_crawl4ai returns, its result is not looked at, the flag
\* is set
EnsureWarmupEnds(r) ==
    /\ run_pc[r] = "warming"
    /\ wu_crawler' \in WarmupResults(wu_available, wu_crawler)
    /\ _system_warmed_up' = TRUE
    /\ run_pc' = [run_pc EXCEPT ![r] = "pipeline"]
    /\ UNCHANGED wu_available
    /\ UNCHANGED <<varsExecutor, varsRace, varsSearch, varsRanker, varsOptimizer, varsDdg, varsPipeline, varsSessions, varsCrawler, varsQuality, varsLifecycle, varsRetry, varsKeys>>

\* a crawl4ai scrape of the run: scrape_with_crawl4ai warms the crawler up
\* itself when there is none (crawl4ai_scraper.py 154-155)
RunScrapes(r) ==
    /\ run_pc[r] = "pipeline"
    /\ wu_available
    /\ wu_crawler = "None"
    /\ wu_crawler' \in WarmupResults(wu_available, wu_crawler)
    /\ UNCHANGED <<_system_warmed_up, wu_available, run_pc>>
    /\ UNCHANGED <<varsExecutor, varsRace, varsSearch, varsRanker, varsOptimizer, varsDdg, varsPipeline, varsSessions, varsCrawler, varsQuality, varsLifecycle, varsRetry, varsKeys>>

\* lines 324-326 and 332-334: `return []`, before the cleanup
RunReturnsEarly(r) ==
    /\ run_pc[r] = "pipeline"
    /\ run_pc' = [run_pc EXCEPT ![r] = "returned"]
    /\ UNCHANGED <<_system_warmed_up, wu_available, wu_crawler>>
    /\ UNCHANGED <<varsExecutor, varsRace, varsSearch, varsRanker, varsOptimizer, varsDdg, varsPipeline, varsSessions, varsCrawler, varsQuality, varsLifecycle, varsRetry, varsKeys>>

\* lines 406-410: await shutdown_crawl4ai()
RunShutdownBegins(r) ==
    /\ run_pc[r] = "pipeline"
    /\ run_pc' = [run_pc EXCEPT ![r] = "shutting"]
    /\ UNCHANGED <<_system_warmed_up, wu_available, wu_crawler>>
    /\ UNCHANGED <<varsExecutor, varsRace, varsSearch, varsRanker, varsOptimizer, varsDdg, varsPipeline, varsSessions, varsCrawler, varsQuality, varsLifecycle, varsRetry, varsKeys>>

\* shutdown_crawl4ai, lines 93-97, and the return at 412: the crawler is
\* dropped, the flag is left as it is
RunShutdownEnds(r) ==
    /\ run_pc[r] = "shutting"
    /\ wu_crawler' = "None"
    /\ run_pc' = [run_pc EXCEPT ![r] = "returned"]
    /\ UNCHANGED <<_system_warmed_up, wu_available>>
    /\ UNCHANGED <<varsExecutor, varsRace, varsSearch, varsRanker, varsOptimizer, varsDdg, varsPipeline, varsSessions, varsCrawler, varsQuality, varsLifecycle, varsRetry, varsKeys>>

NextWarm ==
    \/ \E r \in Runs : RunStarts(r)
    \/ \E r \in Runs : EnsureSkips(r)
    \/ \E r \in Runs : EnsureWarmupBegins(r)
    \/ \E r \in Runs : EnsureWarmupEnds(r)
    \/ \E r \in Runs : RunScrapes(r)
    \/ \E r \in Runs : RunReturnsEarly(r)
    \/ \E r \in Runs : RunShutdownBegins(r)
    \/ \E r \in Runs : RunShutdownEnds(r)

----------------------------------------------------------------------------
(* llm_ranker.py: make_groq_request_with_fallback *)

\* lines 31-37
LLM_RANKER_API_ORDER ==
    <<"GROQ_API_KEY_ALT_2", "GROQ_API_KEY_ALT_3", "GROQ_API_KEY_ALT_4",
      "GROQ_API_KEY", "GROQ_API_KEY_ALT_1">>

\* what os.getenv gives for a key: nothing, an empty or blank text, or a key
KeyValues == {"None", "", " ", "gsk"}

\* key_map of get_api_key_by_name; API_KEYS is indexed from 0 there
key_map(key_name) ==
    CASE key_name = "GROQ_API_KEY" -> 0
      [] key_name = "GROQ_API_KEY_ALT_1" -> 1
      [] key_name = "GROQ_API_KEY_ALT_2" -> 2
      [] key_name = "GROQ_API_KEY_ALT_3" -> 3
      [] key_name = "GROQ_API_KEY_ALT_4" -> 4
      [] OTHER -> -1

\* get_api_key_by_name
get_api_key_by_name(key_name) ==
    IF key_map(key_name) >= 0 /\ key_map(key_name) < Len(API_KEYS)
    THEN API_KEYS[key_map(key_name) + 1]
    ELSE "None"

\* faulty variant: a blank key is taken for a key
KeyMissing_NoStrip(api_key) == api_key \in {"None", ""}

\* line 148: not api_key or not api_key.strip()
KeyMissing(api_key) == api_key \in {"None", "", " "}

\* how client.chat.completions.create can fail
RequestErrors == {"rate limit", "other"}

NoGroqOut == [kind |-> "none", key_name |-> "", error |-> ""]

IdleKeys ==
    /\ API_KEYS = <<>>
    /\ key_pos = 0
    /\ key_log = <<>>
    /\ last_error = "None"
    /\ groq_out = NoGroqOut
    /\ groq_pc = "idle"

InitKeys ==
    /\ API_KEYS \in [1..Len(LLM_RANKER_API_ORDER) -> KeyValues]
    /\ key_pos = 1
    /\ key_log = <<>>
    /\ last_error = "None"
    /\ groq_out = NoGroqOut
    /\ groq_pc = "loop"

\* lines 145-150: the next key is missing or blank
KeySkipped ==
    /\ groq_pc = "loop"
    /\ key_pos <= Len(LLM_RANKER_API_ORDER)
    /\ KeyMissing(get_api_key_by_name(LLM_RANKER_API_ORDER[key_pos]))
    /\ key_log' = Append(key_log, [key_name |-> LLM_RANKER_API_ORDER[key_pos],
                                   result |-> "skipped"])
    /\ key_pos' = key_pos + 1
    /\ UNCHANGED <<API_KEYS, last_error, groq_out, groq_pc>>
    /\ UNCHANGED <<varsExecutor, varsRace, varsSearch, varsRanker, varsOptimizer, varsDdg, varsPipeline, varsSessions, varsCrawler, varsQuality, varsLifecycle, varsRetry, varsWarm>>

\* lines 152-159: the request is made with the next key
RequestStarts ==
    /\ groq_pc = "loop"
    /\ key_pos <= Len(LLM_RANKER_API_ORDER)
    /\ ~KeyMissing(get_api_key_by_name(LLM_RANKER_API_ORDER[key_pos]))
    /\ groq_pc' = "request"
    /\ UNCHANGED <<API_KEYS, key_pos, key_log, last_error, groq_out>>
    /\ UNCHANGED <<varsExecutor, varsRace, varsSearch, varsRanker, varsOptimizer, varsDdg, varsPipeline, varsSessions, varsCrawler, varsQuality, varsLifecycle, varsRetry, varsWarm>>

\* lines 161-162: return response
RequestSucceeds ==
    /\ groq_pc = "request"
    /\ key_log' = Append(key_log, [key_name |-> LLM_RANKER_API_ORDER[key_pos],
                                   result |-> "response"])
    /\ groq_out' = [kind |-> "response", key_name |-> LLM_RANKER_API_ORDER[key_pos],
                    error |-> ""]
    /\ groq_pc' = "returned"
    /\ UNCHANGED <<API_KEYS, key_pos, last_error>>
    /\ UNCHANGED <<varsExecutor, varsRace, varsSearch, varsRanker, varsOptimizer, varsDdg, varsPipeline, varsSessions, varsCrawler, varsQuality, varsLifecycle, varsRetry, varsWarm>>

\* lines 164-180: the request raised; rate limit or not, the next key is tried
RequestFails ==
    /\ groq_pc = "request"
    /\ \E e \in RequestErrors :
          /\ key_log' = Append(key_log, [key_name |-> LLM_RANKER_API_ORDER[key_pos],
                                         result |-> e])
          /\ last_error' = e
    /\ key_pos' = key_pos + 1
    /\ groq_pc' = "loop"
    /\ UNCHANGED <<API_KEYS, groq_out>>
    /\ UNCHANGED <<varsExecutor, varsRace, varsSearch, varsRanker, varsOptimizer, varsDdg, varsPipeline, varsSessions, varsCrawler, varsQuality, varsLifecycle, varsRetry, varsWarm>>

\* line 182: raise Exception("All API keys failed. Last error: ...")
AllKeysFailed ==
    /\ groq_pc = "loop"
    /\ key_pos > Len(LLM_RANKER_API_ORDER)
    /\ groq_out' = [kind |-> "raised", key_name |-> "", error |-> last_error]
    /\ groq_pc' = "raised"
    /\ UNCHANGED <<API_KEYS, key_pos, key_log, last_error>>
    /\ UNCHANGED <<varsExecutor, varsRace, varsSearch, varsRanker, varsOptimizer, varsDdg, varsPipeline, varsSessions, varsCrawler, varsQuality, varsLifecycle, varsRetry, varsWarm>>

NextKeys ==
    \/ KeySkipped
    \/ RequestStarts
    \/ RequestSucceeds
    \/ RequestFails
    \/ AllKeysFailed

----------------------------------------------------------------------------
(* The specifications *)

ExecutorStart == InitExecutor /\ IdleRace /\ IdleSearch /\ IdleRanker /\ IdleOptimizer /\ IdleDdg /\ IdlePipeline /\ IdleSessions /\ IdleCrawler /\ IdleQuality /\ IdleLifecycle /\ IdleRetry /\ IdleWarm /\ IdleKeys

RaceStart == InitRace /\ IdleExecutor /\ IdleSearch /\ IdleRanker /\ IdleOptimizer /\ IdleDdg /\ IdlePipeline /\ IdleSessions /\ IdleCrawler /\ IdleQuality /\ IdleLifecycle /\ IdleRetry /\ IdleWarm /\ IdleKeys

SearchStart == InitSearch /\ IdleExecutor /\ IdleRace /\ IdleRanker /\ IdleOptimizer /\ IdleDdg /\ IdlePipeline /\ IdleSessions /\ IdleCrawler /\ IdleQuality /\ IdleLifecycle /\ IdleRetry /\ IdleWarm /\ IdleKeys

RankerStart == InitRanker /\ IdleExecutor /\ IdleRace /\ IdleSearch /\ IdleOptimizer /\ IdleDdg /\ IdlePipeline /\ IdleSessions /\ IdleCrawler /\ IdleQuality /\ IdleLifecycle /\ IdleRetry /\ IdleWarm /\ IdleKeys

OptimizerStart == InitOptimizer /\ IdleExecutor /\ IdleRace /\ IdleSearch /\ IdleRanker /\ IdleDdg /\ IdlePipeline /\ IdleSessions /\ IdleCrawler /\ IdleQuality /\ IdleLifecycle /\ IdleRetry /\ IdleWarm /\ IdleKeys

DdgStart == InitDdg /\ IdleExecutor /\ IdleRace /\ IdleSearch /\ IdleRanker /\ IdleOptimizer /\ IdlePipeline /\ IdleSessions /\ IdleCrawler /\ IdleQuality /\ IdleLifecycle /\ IdleRetry /\ IdleWarm /\ IdleKeys

PipelineStart == InitPipeline /\ IdleExecutor /\ IdleRace /\ IdleSearch /\ IdleRanker /\ IdleOptimizer /\ IdleDdg /\ IdleSessions /\ IdleCrawler /\ IdleQuality /\ IdleLifecycle /\ IdleRetry /\ IdleWarm /\ IdleKeys

SessionsStart == InitSessions /\ IdleExecutor /\ IdleRace /\ IdleSearch /\ IdleRanker /\ IdleOptimizer /\ IdleDdg /\ IdlePipeline /\ IdleCrawler /\ IdleQuality /\ IdleLifecycle /\ IdleRetry /\ IdleWarm /\ IdleKeys

CrawlerStart == InitCrawler /\ IdleExecutor /\ IdleRace /\ IdleSearch /\ IdleRanker /\ IdleOptimizer /\ IdleDdg /\ IdlePipeline /\ IdleSessions /\ IdleQuality /\ IdleLifecycle /\ IdleRetry /\ IdleWarm /\ IdleKeys

QualityStart == InitQuality /\ IdleExecutor /\ IdleRace /\ IdleSearch /\ IdleRanker /\ IdleOptimizer /\ IdleDdg /\ IdlePipeline /\ IdleSessions /\ IdleCrawler /\ IdleLifecycle /\ IdleRetry /\ IdleWarm /\ IdleKeys

LifecycleStart == InitLifecycle /\ IdleExecutor /\ IdleRace /\ IdleSearch /\ IdleRanker /\ IdleOptimizer /\ IdleDdg /\ IdlePipeline /\ IdleSessions /\ IdleCrawler /\ IdleQuality /\ IdleRetry /\ IdleWarm /\ IdleKeys

RetryStart == InitRetry /\ IdleExecutor /\ IdleRace /\ IdleSearch /\ IdleRanker /\ IdleOptimizer /\ IdleDdg /\ IdlePipeline /\ IdleSessions /\ IdleCrawler /\ IdleQuality /\ IdleLifecycle /\ IdleWarm /\ IdleKeys

WarmStart == InitWarm /\ IdleExecutor /\ IdleRace /\ IdleSearch /\ IdleRanker /\ IdleOptimizer /\ IdleDdg /\ IdlePipeline /\ IdleSessions /\ IdleCrawler /\ IdleQuality /\ IdleLifecycle /\ IdleRetry /\ IdleKeys

KeysStart == InitKeys /\ IdleExecutor /\ IdleRace /\ IdleSearch /\ IdleRanker /\ IdleOptimizer /\ IdleDdg /\ IdlePipeline /\ IdleSessions /\ IdleCrawler /\ IdleQuality /\ IdleLifecycle /\ IdleRetry /\ IdleWarm

SpecExecutor == ExecutorStart /\ [][NextExecutor]_vars

SpecRace == RaceStart /\ [][NextRace]_vars

SpecSearch == SearchStart /\ [][NextSearch]_vars

SpecRanker == RankerStart /\ [][NextRanker]_vars

SpecOptimizer == OptimizerStart /\ [][NextOptimizer]_vars

SpecDdg == DdgStart /\ [][NextDdg]_vars

SpecPipeline == PipelineStart /\ [][NextPipeline]_vars

SpecSessions == SessionsStart /\ [][NextSessions]_vars

SpecCrawler == CrawlerStart /\ [][NextCrawler]_vars

SpecQuality == QualityStart /\ [][NextQuality]_vars

SpecLifecycle == LifecycleStart /\ [][NextLifecycle]_vars

SpecRetry == RetryStart /\ [][NextRetry]_vars

\* every task and the cleanup run on to their end: the event loop and the thread
\* pool leave no ready task waiting forever
SpecOptimizerFair ==
    OptimizerStart /\ [][NextOptimizerReliable]_vars /\ WF_vars(NextOptimizerReliable)

SpecWarm == WarmStart /\ [][NextWarm]_vars

SpecKeys == KeysStart /\ [][NextKeys]_vars

----------------------------------------------------------------------------
(* Properties of the scrape executor *)

\* the processors that returned an accepted outcome
AcceptedIdx == {i \in CandidateIdx : IsDict(batch_results[i]) /\ batch_results[i].success}

AcceptedSoFar ==
    Len(final_results) + Cardinality({i \in Batch : i \in AcceptedIdx /\ ex_pc = "gather"})

\* C7 as claimed: once the accepted outcomes reach required_count while a batch is in
\* flight, no scrape task of the batch is left pending (the rest are cancelled and
\* the executor does not wait for them).
C7_StopsAtTargetMidBatch ==
    (ex_pc = "gather" /\ AcceptedSoFar >= required_results) =>
        \A i \in Batch : proc[i] # "waiting"

\* C7 amended: the executor awaits every scrape task of the batch before it collects
\* anything: while a task of the batch is pending the executor is in gather and
\* final_results is below required_count; collection never exceeds required_count.
C7_WaitsForWholeBatch ==
    /\ (\E i \in CandidateIdx : proc[i] = "waiting") =>
            (ex_pc = "gather" /\ Len(final_results) < required_results)
    /\ Len(final_results) <= required_results

\* C7 witness: the accepted outcomes have reached required_count and a scrape task
\* of the same batch is still pending
C7_Witness ==
    /\ ex_pc = "gather"
    /\ AcceptedSoFar >= required_results
    /\ \E i \in Batch : proc[i] = "waiting"

\* C9: every outcome the executor retains is successful, of tier ACCEPTABLE, GOOD or
\* EXCELLENT, scores at least 25 and has content.
C9_OnlyAcceptableRetained ==
    \A k \in DOMAIN final_results :
        /\ final_results[k].success
        /\ final_results[k].quality_tier \in AcceptableTiers
        /\ final_results[k].quality_score >= 25
        /\ final_results[k].word_count > 0

\* C9 witness: an outcome of the lowest retained tier is returned
C9_Witness ==
    /\ ex_pc = "done"
    /\ \E k \in DOMAIN final_results : final_results[k].quality_tier = "ACCEPTABLE"

----------------------------------------------------------------------------
(* Properties of one URL's race *)

\* C6 as claimed: when the wait of the race has run 15 s without a task finishing,
\* the unfinished strategy tasks are treated as failed and cancelled and the
\* processor returns.
C6_TimeoutEndsRace ==
    timed_out => (race_pc = "returned" /\ \A n \in StrategyNames : tasks[n] # "running")

\* the first strategy, in completion order, whose result passes the gate
RECURSIVE FirstAcceptable(_)
FirstAcceptable(order) ==
    IF order = <<>> THEN ""
    ELSE IF IsAccepted(task_result[Head(order)], url_data.url) THEN Head(order)
    ELSE FirstAcceptable(Tail(order))

\* C8 as claimed: the outcome returned is that of the first-completed task whose
\* result is successful and passes the quality gate.
C8_FirstCompletedWins ==
    (race_pc = "returned" /\ IsDict(race_value)) =>
        race_value.method = FirstAcceptable(completion_order)

\* C8 amended: the outcome returned is that of a completed task whose result is
\* successful and passes the gate, every task examined before it was unsuccessful
\* or unacceptable and was discarded, the siblings still pending at acceptance are
\* cancelled (none is left running); a race keeps waiting while a task is left; a
\* race that returns no outcome has discarded every task it launched.
C8_RaceOutcome ==
    /\ \A n \in StrategyNames :
          tasks[n] = "discarded" => ~IsAccepted(task_result[n], url_data.url)
    /\ (race_pc = "returned" /\ IsDict(race_value)) =>
          /\ \E n \in StrategyNames :
                /\ tasks[n] = "accepted"
                /\ IsAccepted(task_result[n], url_data.url)
                /\ race_value = AcceptedResult(url_data, n, task_result[n])
                /\ \A m \in StrategyNames \ {n} :
                      tasks[m] \in {"absent", "cancelled", "discarded", "done"}
    /\ (race_pc = "returned" /\ ~IsDict(race_value)) =>
          \A n \in StrategyNames :
             tasks[n] = (IF n \in LaunchedStrategies(url_data.suggested_method)
                         THEN "discarded" ELSE "absent")
    /\ race_pc = "waiting" => InTasks(tasks) # {}

\* C8 witness: a result was discarded, the race kept waiting and then accepted the
\* sibling's result
C8_Witness ==
    /\ race_pc = "returned"
    /\ IsDict(race_value)
    /\ \E n \in StrategyNames : tasks[n] = "discarded"

----------------------------------------------------------------------------
(* Properties of the search fan-out *)

FirstIndexOf(url) == MinOf({i \in DOMAIN all_results : all_results[i].url = url})

\* no two entries share a URL; each entry is the first entry of all_results with
\* its URL; the entries are in the order of all_results
DedupOf(out) ==
    /\ \A k, l \in DOMAIN out : k # l => out[k].url # out[l].url
    /\ \A k \in DOMAIN out :
          /\ \E i \in DOMAIN all_results : all_results[i].url = out[k].url
          /\ out[k] = all_results[FirstIndexOf(out[k].url)]
    /\ \A k, l \in DOMAIN out :
          k < l => FirstIndexOf(out[k].url) < FirstIndexOf(out[l].url)

\* C10: the output of the search fan-out (and the list remove_duplicate_urls is
\* building) holds no two entries with the same URL, the entry kept for a URL is its
\* first occurrence, and the kept entries are in input order.
C10_DedupFirstSeen ==
    /\ DedupOf(unique_results)
    /\ search_pc = "returned" => DedupOf(search_out)

\* C10 witness: a URL occurs twice with different titles, and the output keeps two
\* entries
C10_Witness ==
    /\ search_pc = "returned"
    /\ Len(search_out) >= 2
    /\ \E i, j \in DOMAIN all_results :
          /\ i < j
          /\ all_results[i].url = all_results[j].url
          /\ all_results[i].url # ""
          /\ all_results[i].title # all_results[j].title

----------------------------------------------------------------------------
(* Properties of the ranker *)

\* C3: the ranker returns exactly as many records as it was given candidates,
\* one per input candidate (a permutation of the input URLs).
C3_PermutationOfInput ==
    rank_pc = "returned" =>
        /\ Len(ranked_urls) = Len(search_results)
        /\ \A i \in DOMAIN search_results :
              Cardinality({k \in DOMAIN ranked_urls :
                              ranked_urls[k].url = search_results[i].url}) = 1

----------------------------------------------------------------------------
(* Properties of the optimizer *)

\* the characters of content the returned records carry
ReturnedChars ==
    IF opt_out.kind = "optimized"
    THEN SumSeq([k \in DOMAIN opt_out.results |-> opt_out.results[k].content_len])
    ELSE SumSeq([k \in DOMAIN opt_out.results |->
                    ContentLen(opt_out.results[k].content)])

C5_FailureReturnsOriginals ==
    /\ [](opt_error # "" =>
            /\ op_pc = "returned"
            /\ opt_out = [kind |-> "original", results |-> scraped_results]
            /\ \A k \in DOMAIN scraped_results :
                  scraped_results[k].source_type = "scraped"
            /\ cleanup_pc # "none")
    /\ [][scraped_results' = scraped_results]_vars

C5_Witness ==
    /\ opt_error = "query"
    /\ op_pc = "returned"
    /\ scraped_results # <<>>
    /\ cleanup_pc = "scheduled"

----------------------------------------------------------------------------
(* Properties of search_duckduckgo *)

\* C11: search_duckduckgo makes at most 3 attempts, makes no attempt after one that
\* yielded a valid result, goes on to the next attempt (while one is left) after an
\* attempt that raised or yielded no valid result, never raises to its caller, and
\* returns an empty list when every attempt raised.
C11_BoundedRetries ==
    /\ Len(ddg_log) <= 3
    /\ \A k \in DOMAIN ddg_log : k < Len(ddg_log) => ddg_log[k].valid = 0
    /\ ddg_pc = "returned" =>
          /\ ddg_out.kind = "list"
          /\ Len(ddg_log) >= 1
          /\ Len(ddg_log) < 3 => ddg_log[Len(ddg_log)].valid > 0
          /\ ddg_log[Len(ddg_log)].valid > 0 => ddg_out.results = CleanResults(ddg_reply)
          /\ (\A k \in DOMAIN ddg_log : ddg_log[k].raised) =>
                (Len(ddg_log) = 3 /\ ddg_out.results = <<>>)

\* C11 witness: two attempts raised, the third yielded a valid result
C11_Witness ==
    /\ ddg_pc = "returned"
    /\ Len(ddg_log) = 3
    /\ ddg_log[1].raised /\ ddg_log[2].raised
    /\ ddg_out.results # <<>>

----------------------------------------------------------------------------
(* Further properties of the ranker *)

\* the collaborator was unavailable, its request raised, or its answer held no JSON
CollaboratorFailed ==
    /\ search_results # <<>>
    /\ \/ ~groq_available
       \/ llm_output.kind \in {"raised", "unparsable"}

\* every input candidate occurs exactly once in the ranking, and nothing else does
OnePerInput ==
    /\ Len(ranked_urls) = Len(search_results)
    /\ \A i \in DOMAIN search_results :
          Cardinality({k \in DOMAIN ranked_urls :
                          ranked_urls[k].url = search_results[i].url}) = 1

\* C12: when the collaborator is unavailable, raises or answers without JSON, the
\* ranker returns (raises nothing), the ranking and the enhanced query both come
\* from the heuristic fallback, and the ranking holds one record per input candidate.
C12_TotalFallback ==
    (rank_pc = "returned" /\ CollaboratorFailed) =>
        /\ enhanced_query = _simple_query_enhancement(user_query)
        /\ \A k \in DOMAIN ranked_urls :
              ranked_urls[k].method_reason = "Simple pattern matching"
        /\ OnePerInput

----------------------------------------------------------------------------
(* Properties of the pipeline run *)

\* C13: on every path, the run returns to its caller a pair (result list, enhanced
\* query), also when the search yields no candidates.
C13_AlwaysPair ==
    pl_pc = "returned" => pl_return.shape = "pair"

\* a processor task was created for some candidate
ScrapeAttempted == \E i \in DOMAIN proc : proc[i] # "idle"

C15_NeverShorter ==
    rank_pc = "returned" =>
        /\ enhanced_query.chars > 0
        /\ enhanced_query.chars >= user_query.chars

\* C15 (amended): the enhanced query returned is non-empty; it is the original
\* query when there are no candidates or the answer has no enhanced_query field and
\* the original has 10 characters or more; it is the original query followed by a
\* template on the fallback paths; and when it is the collaborator's text it has at
\* least 10 characters, whatever the length of the original query.
C15_NonEmptyEnhancedQuery ==
    rank_pc = "returned" =>
        /\ enhanced_query.chars > 0
        /\ enhanced_query.origin = "llm" =>
              (enhanced_query.chars >= 10 /\ enhanced_query.chars = llm_output.enhanced_chars)
        /\ enhanced_query.origin = "original" => enhanced_query.chars = user_query.chars
        /\ enhanced_query.origin \notin {"llm", "original"} =>
              enhanced_query.chars > user_query.chars

\* C15 witness: the collaborator's enhanced query is returned and is shorter than
\* the original query
C15_Witness ==
    /\ rank_pc = "returned"
    /\ enhanced_query.origin = "llm"
    /\ enhanced_query.chars < user_query.chars

\* the collaborator's answer was parsed and its ranking built
AnswerParsed ==
    /\ rank_pc = "returned"
    /\ llm_output.kind = "json"
    /\ ~BuildRaises(llm_output.url_rankings)

\* the ids of the ranking list that name a candidate handed to the collaborator
NamedIds ==
    {llm_output.url_rankings[k].id : k \in DOMAIN llm_output.url_rankings}
    \cap 0..(Len(urls_to_rank(search_results)) - 1)

\* the first entry of the ranking list naming id
FirstEntryFor(id) ==
    llm_output.url_rankings[MinOf({k \in DOMAIN llm_output.url_rankings :
                                      llm_output.url_rankings[k].id = id})]

\* the collaborator's rankings are used: each named candidate carries the score and
\* the method of the first entry naming it
RankingsUsed ==
    \A id \in NamedIds :
       \E k \in DOMAIN ranked_urls :
          /\ ranked_urls[k].url = id + 1
          /\ ranked_urls[k].relevance_score = FirstEntryFor(id).relevance_score
          /\ ranked_urls[k].suggested_method = FirstEntryFor(id).method

\* C16 (as stated): when the parsed answer has no enhanced_query field, or one
\* shorter than 10 characters, the template expansion of the original query is
\* returned, and the rankings of the answer are used.
C16_TemplateWhenMissingOrShort ==
    (AnswerParsed /\ (~llm_output.has_enhanced_query \/ llm_output.enhanced_chars < 10)) =>
        /\ enhanced_query = _simple_query_enhancement(user_query)
        /\ RankingsUsed

\* C16 (amended): when the parsed answer has an enhanced_query that is empty or
\* shorter than 10 characters, the template expansion of the original query is
\* returned; when it has no enhanced_query field, the original query stands in for
\* it and is returned unchanged, unless the original is itself shorter than 10
\* characters, and then its template expansion is returned; in each case the
\* rankings of the answer are used.
C16_MissingFieldKeepsOriginal ==
    AnswerParsed =>
        /\ (llm_output.has_enhanced_query /\ llm_output.enhanced_chars < 10) =>
              enhanced_query = _simple_query_enhancement(user_query)
        /\ (~llm_output.has_enhanced_query /\ user_query.chars < 10) =>
              enhanced_query = _simple_query_enhancement(user_query)
        /\ (~llm_output.has_enhanced_query /\ user_query.chars >= 10) =>
              enhanced_query = OriginalQuery(user_query)
        /\ RankingsUsed

\* C16 witness: the answer has no enhanced_query field, the original query has 10
\* characters or more, and the answer ranks a candidate
C16_Witness ==
    /\ AnswerParsed
    /\ ~llm_output.has_enhanced_query
    /\ user_query.chars >= 10
    /\ NamedIds # {}

\* the position p of the ranking holds a candidate the ranking list did not name
HoldsOmitted(named, p) == (ranked_urls[p].url - 1) \notin named

\* the record at position p carries the default score, method and justification
HasDefaults(p) ==
    /\ ranked_urls[p].relevance_score = 10
    /\ ranked_urls[p].suggested_method = "beautifulsoup"
    /\ ranked_urls[p].method_reason = "Fallback - LLM didn't suggest method"

C18_SortedByQuality ==
    ex_pc = "done" =>
        \A k \in 1..(Len(final_results) - 1) :
           final_results[k].quality_score >= final_results[k + 1].quality_score

\* C18 witness: two results from two batches, the one of the second batch ranked
\* first in the returned list, its processor task having returned after the other's
C18_Witness ==
    /\ ex_pc = "done"
    /\ ranked_results = TwoBatchRanking
    /\ Len(final_results) = 2
    /\ final_results[1].quality_score > final_results[2].quality_score
    /\ final_results[1] = batch_results[5]
    /\ Cardinality({i \in 1..4 : i \in AcceptedIdx}) = 1
    /\ \E i \in 1..4 : i \in AcceptedIdx /\ final_results[2] = batch_results[i]


\* C19 (as stated): in every optimized source the selected chunks are joined in the
\* order chunking emitted them (ascending chunk_id), whatever order the query
\* returned them in.
C19_ChunksInOriginalOrder ==
    (op_pc = "returned" /\ opt_out.kind = "optimized") =>
        \A r \in DOMAIN opt_out.results :
           \A j, k \in DOMAIN opt_out.results[r].chunk_ids :
              j < k => opt_out.results[r].chunk_ids[j] < opt_out.results[r].chunk_ids[k]


\* C20 (as stated): when two optimize calls run concurrently, no upsert, query or
\* delete request of one call reaches a collection the other call created.
C20_OwnCollectionOnly ==
    \A r \in issued : r.owner = r.by

\* the callers that hold a position inside `async with _crawler_lock`
InsideLock == {c \in Callers : cr_pc[c] \in {"warm_check", "warm_create", "shut_clear"}}

\* C21: under any interleaving of warmup_crawl4ai, shutdown_crawl4ai and
\* scrape_with_crawl4ai calls, at most one initialization of the shared crawler is
\* in progress, only the holder of the lock is inside the guarded block, and every
\* assignment to the shared variable was made by the caller holding the lock.
C21_InitUnderLock ==
    /\ Cardinality({c \in Callers : cr_pc[c] = "warm_create"}) <= 1
    /\ \A c \in InsideLock : _crawler_lock = c
    /\ last_write.by = last_write.holder

\* C21 witness: an initialization is in progress while a second warmup (that of a
\* scrape call) and a shutdown wait for the lock, after an earlier assignment
C21_Witness ==
    \E c, d, e \in Callers :
       /\ cr_pc[c] = "warm_create"
       /\ cr_pc[d] = "warm_lock" /\ cr_op[d] = "scrape"
       /\ cr_pc[e] = "shut_lock"
       /\ last_write.by \in Callers

\* the length bucket and the domain bonus the quality gate is specified to give
ExpectedBucket(words) ==
    CASE words >= 500 -> 40
      [] words >= 200 /\ words < 500 -> 30
      [] words >= 100 /\ words < 200 -> 20
      [] words >= 50 /\ words < 100 -> 10
      [] OTHER -> 0

ExpectedBonus(host) ==
    CASE host \in {"en.wikipedia.org", "github.com"} -> 30
      [] host \in {"example.org", "mit.edu"} -> 15
      [] host \in {"example.com", "twitter.com"} -> 10
      [] OTHER -> 0

\* C22: assess_content_quality returns (0, FAILED) for empty or whitespace-only
\* content; otherwise the score is the length bucket plus exactly one domain bonus,
\* and the tier is EXCELLENT iff score >= 60, GOOD iff 40..59, ACCEPTABLE iff 25..39,
\* POOR otherwise; 500 words from a trusted domain give 70 or more and EXCELLENT,
\* 40 words from an untrusted domain give less than 25 and POOR.
C22_QualityGate ==
    q_pc = "returned" =>
        IF q_content.kind # "text"
        THEN q_out = [quality_score |-> 0, quality_tier |-> "FAILED"]
        ELSE /\ q_out.quality_score = ExpectedBucket(q_content.words) + ExpectedBonus(q_url)
             /\ q_out.quality_score \in 0..100
             /\ q_out.quality_tier = "EXCELLENT" <=> q_out.quality_score >= 60
             /\ q_out.quality_tier = "GOOD" <=> q_out.quality_score \in 40..59
             /\ q_out.quality_tier = "ACCEPTABLE" <=> q_out.quality_score \in 25..39
             /\ q_out.quality_tier = "POOR" <=> q_out.quality_score < 25
             /\ (q_content.words = 500 /\ ExpectedBonus(q_url) = 30) =>
                   (q_out.quality_score >= 70 /\ q_out.quality_tier = "EXCELLENT")
             /\ (q_content.words = 40 /\ ExpectedBonus(q_url) # 30) =>
                   (q_out.quality_score < 25 /\ q_out.quality_tier = "POOR")

\* C22 witness: a text scoring exactly 40 (200 words, a .com host), the lower
\* bound of GOOD
C22_Witness ==
    /\ q_pc = "returned"
    /\ q_content = [kind |-> "text", words |-> 200]
    /\ q_url = "example.com"
    /\ q_out = [quality_score |-> 40, quality_tier |-> "GOOD"]

\* C23: each batch of the executor has min(8, 2 x remaining_needed, candidates
\* left) candidates, remaining_needed being required_count minus the outcomes
\* collected so far; the batches are consecutive slices of the ranking in rank
\* order: a batch starts where the last one ended, none of its candidates was
\* scraped before, and every higher-ranked candidate has been scraped.
C23_BatchSlices ==
    [][(ex_pc = "loop" /\ ex_pc' = "gather") =>
          /\ processed_urls = end_idx
          /\ end_idx' - processed_urls =
                Min(Min(8, 2 * (required_results - Len(final_results))),
                    Len(ranked_results) - processed_urls)
          /\ end_idx' > processed_urls
          /\ \A i \in CandidateIdx :
                /\ i <= processed_urls => (proc[i] = "returned" /\ proc'[i] = "returned")
                /\ i \in (processed_urls + 1)..end_idx' =>
                      (proc[i] = "idle" /\ proc'[i] = "waiting")
                /\ i > end_idx' => (proc[i] = "idle" /\ proc'[i] = "idle")]_vars

\* C23 witness: a second batch holding the one candidate left, after a first batch
\* of eight cut by the cap
C23_Witness ==
    /\ ex_pc = "gather"
    /\ Len(ranked_results) = 9
    /\ required_results = 5
    /\ processed_urls = 8
    /\ end_idx = 9
    /\ proc[9] = "waiting"

\* the strategy tasks the race created, and those still running
CreatedTasks == {n \in StrategyNames : tasks[n] # "absent"}

RunningTasks == {n \in StrategyNames : tasks[n] = "running"}

C25_KnownMethodsOnly ==
    rank_pc = "returned" =>
        \A k \in DOMAIN ranked_urls :
           ranked_urls[k].suggested_method \in {"beautifulsoup", "playwright", "crawl4ai"}


\* the positions of the request log where op was issued, or completed
IssuedAt(op) == {i \in DOMAIN requests : requests[i].event = "issued" /\ requests[i].op = op}

CompletedAt(op, b) == {i \in DOMAIN requests : requests[i] = Completed(op, b)}

\* C26 (as stated): within one optimize call no upsert and no query is issued
\* before the creation of the collection has completed, the query is issued only
\* after every upsert batch has completed, the delete never precedes the query, and
\* no request to the collection follows the delete.
C26_RequestOrder ==
    /\ \A i \in IssuedAt("upsert") \cup IssuedAt("query") :
          \E j \in CompletedAt("create", 0) : j < i
    /\ \A i \in IssuedAt("query") :
          \A b \in 1..BatchCount(n_points) : \E j \in CompletedAt("upsert", b) : j < i
    /\ \A d \in IssuedAt("delete") :
          \A i \in IssuedAt("upsert") \cup IssuedAt("query") \cup IssuedAt("delete") :
             i <= d

\* the source groups of the query's answer, in rank order
RankedSources == SortSourcesDesc(GroupBySource(relevant_chunks, <<>>))

\* used_chars after the loop
UsedChars(results) == SumSeq([k \in DOMAIN results |-> results[k].content_len])

\* C27: when the reconstruction returns fewer entries than there are source
\* groups, the running total has reached the budget or the share of the first
\* source left out, remaining_budget / remaining_source_count, is below 100
C27_StopsOnlyOnBudget ==
    (op_pc = "returned" /\ opt_out.kind = "optimized"
        /\ Len(opt_out.results) < Len(RankedSources))
        => LET used == UsedChars(opt_out.results)
               left == Len(RankedSources) - Len(opt_out.results)
           IN \/ used >= target_budget
              \/ (target_budget - used) \div left < 100


\* the chunks the query returned for one source
ReturnedFor(source_idx) ==
    SelectSeq(relevant_chunks, LAMBDA c : c.source_idx = source_idx)

\* mean score of the chunks returned for source a >= that for source b
MeanScoreAtLeast(a, b) ==
    ScoreSum(ReturnedFor(a)) * Len(ReturnedFor(b))
        >= ScoreSum(ReturnedFor(b)) * Len(ReturnedFor(a))

\* C28: the reconstructed list is in descending order of the mean similarity
\* score of each source's returned chunks, holds at most one entry per source,
\* and each entry's chunk_count is the number of chunks returned for its source
C28_RankedOnePerSource ==
    (op_pc = "returned" /\ opt_out.kind = "optimized") =>
        LET out == opt_out.results
        IN /\ \A k \in 1..(Len(out) - 1) :
                 MeanScoreAtLeast(out[k].source_idx, out[k + 1].source_idx)
           /\ \A j, k \in DOMAIN out : j < k => out[j].source_idx # out[k].source_idx
           /\ \A k \in DOMAIN out :
                 /\ out[k].source_idx \in 0..(Len(scraped_results) - 1)
                 /\ out[k].chunk_count = Len(ReturnedFor(out[k].source_idx))
                 /\ out[k].chunk_count >= 1

\* the later source ranks first on its mean although the query returned a
\* chunk of the earlier source, which has two chunks, before its own
C28_Witness ==
    /\ op_pc = "returned"
    /\ opt_out.kind = "optimized"
    /\ Len(opt_out.results) = 2
    /\ opt_out.results[1].source_idx = 1
    /\ opt_out.results[2].source_idx = 0
    /\ opt_out.results[2].chunk_count = 2
    /\ relevant_chunks[1].source_idx = 0


\* C29: every chunk has between 50 and 1000 characters, whether it is a whole
\* paragraph or a group of sentences, and a source whose text has fewer than 100
\* characters has no chunk
C29_ChunkLengths ==
    /\ \A k \in DOMAIN all_chunks :
          all_chunks[k].length >= 50 /\ all_chunks[k].length <= 1000
    /\ \A i \in DOMAIN scraped_results :
          ContentLen(scraped_results[i].content) < 100
              => \A k \in DOMAIN all_chunks : all_chunks[k].source_idx # i - 1


\* the chunks of one source, in emission order
ChunksOf(source_idx) ==
    SelectSeq(all_chunks, LAMBDA c : c.source_idx = source_idx)

\* C30: the chunk ids are 0, 1, 2, ... in emission order (so pairwise distinct
\* and without gaps), the chunks come grouped by ascending source index, and
\* each chunk carries the index, url, title and quality score of the source
\* whose text it was cut from (50 when the source has no quality score)
C30_ChunkIdentity ==
    /\ \A k \in DOMAIN all_chunks : all_chunks[k].chunk_id = k - 1
    /\ \A j, k \in DOMAIN all_chunks :
          j < k => all_chunks[j].source_idx <= all_chunks[k].source_idx
    /\ \A k \in DOMAIN all_chunks :
          LET c == all_chunks[k]
          IN /\ c.source_idx \in 0..(Len(scraped_results) - 1)
             /\ LET source == scraped_results[c.source_idx + 1]
                IN /\ c.url = source.url
                   /\ c.title = source.title
                   /\ c.quality_score = IF "quality_score" \in DOMAIN source
                                        THEN source.quality_score ELSE 50
    /\ all_chunks # <<>> =>
          \A i \in DOMAIN scraped_results :
             [k \in DOMAIN ChunksOf(i - 1) |-> ChunksOf(i - 1)[k].length]
                = IF ContentLen(scraped_results[i].content) < 100 THEN <<>>
                  ELSE [k \in DOMAIN ContentChunks(scraped_results[i].content) |->
                           ContentChunks(scraped_results[i].content)[k].length]

\* two sources with two chunks each: the second source's first chunk is chunk 2
C30_Witness ==
    /\ Len(all_chunks) = 4
    /\ all_chunks[2].source_idx = 0
    /\ all_chunks[3].source_idx = 1
    /\ all_chunks[3].chunk_id = 2
    /\ all_chunks[3].url = 2
    /\ all_chunks[3].quality_score = 50
    /\ all_chunks[1].quality_score = 80


----------------------------------------------------------------------------
(* Properties of the heuristic ranking and of the ranker's frame *)

\* the number of words of the query, each occurrence counted, that a text holds
Hits(query, text) == Cardinality({i \in DOMAIN query.words : query.words[i] \in text})

\* the ranking came from simple_rank_urls_with_methods
HeuristicPath ==
    /\ rank_pc = "returned"
    /\ search_results # <<>>
    /\ \/ ~groq_available
       \/ llm_output.kind \in {"raised", "unparsable"}
       \/ llm_output.kind = "json" /\ BuildRaises(llm_output.url_rankings)

\* C31: on the heuristic fallback path every candidate's score is 10 for each
\* query word found in its title plus 5 for each query word found in its
\* snippet, and the ranking is in descending order of score, candidates of
\* equal score in their input order
C31_HeuristicScoreAndOrder ==
    HeuristicPath =>
        /\ \A k \in DOMAIN ranked_urls :
              ranked_urls[k].relevance_score
                 = 10 * Hits(user_query, ranked_urls[k].title)
                   + 5 * Hits(user_query, ranked_urls[k].snippet)
        /\ \A k \in 1..(Len(ranked_urls) - 1) :
              \/ ranked_urls[k].relevance_score > ranked_urls[k + 1].relevance_score
              \/ /\ ranked_urls[k].relevance_score = ranked_urls[k + 1].relevance_score
                 /\ ranked_urls[k].url < ranked_urls[k + 1].url

\* a long list ranked for a query that repeats a word: the third and sixth
\* candidates, whose title and snippet hold the word, tie at the top with 30 in
\* input order; the second scores 20 for its title; the first scores nothing
C31_Witness ==
    /\ HeuristicPath
    /\ Len(user_query.words) = 2
    /\ user_query.words[1] = user_query.words[2]
    /\ Len(ranked_urls) = MAX_RANKING_URLS
    /\ ranked_urls[1].url = 3
    /\ ranked_urls[2].url = 6
    /\ ranked_urls[1].relevance_score = 30
    /\ ranked_urls[2].relevance_score = 30
    /\ \E k \in DOMAIN ranked_urls :
          ranked_urls[k].url = 2 /\ ranked_urls[k].relevance_score = 20
    /\ ranked_urls[MAX_RANKING_URLS].relevance_score = 0


\* C33: no step of rank_urls_with_enhanced_query changes the caller's list of
\* candidates or any record in it, on the collaborator path and on the
\* heuristic path alike
C33_InputsUnchanged ==
    [][rank_pc' = "returned" => search_results' = search_results]_vars


----------------------------------------------------------------------------
(* Properties of scrape_with_crawl4ai *)

AttemptsMade == SelectSeq(c4_events, LAMBDA e : e.kind = "attempt")

\* C32: a call makes at most 3 attempts (the first and 2 retries), numbered 1,
\* 2, 3; it sleeps exactly after an attempt that raised while a retry is left,
\* for 2 s times the number of that attempt; and when the attempts are used up
\* it returns a failure, it does not raise
C32_BoundedAttemptsWithBackoff ==
    /\ Len(AttemptsMade) <= crawl4ai_max_retries + 1
    /\ \A k \in DOMAIN AttemptsMade : AttemptsMade[k].n = k
    /\ \A i \in DOMAIN c4_events :
          c4_events[i].kind = "sleep" =>
             /\ i > 1
             /\ c4_events[i - 1].kind = "attempt"
             /\ c4_events[i - 1].outcome = "raised"
             /\ c4_events[i].seconds = 2 * c4_events[i - 1].n
    /\ \A i \in DOMAIN c4_events :
          (c4_events[i].kind = "attempt" /\ c4_events[i].outcome = "raised"
              /\ i < Len(c4_events))
             => c4_events[i + 1].kind = "sleep"
    /\ c4_pc \in {"called", "warmed", "loop", "arun", "backoff", "returned"}
    /\ (c4_pc = "returned" /\ Len(AttemptsMade) = crawl4ai_max_retries + 1
          /\ AttemptsMade[crawl4ai_max_retries + 1].words <= 10)
          => ~c4_out.success

\* three attempts raised: pauses of 2 s and 4 s, none after the last, and the
\* call returned a failure
C32_Witness ==
    /\ c4_pc = "returned"
    /\ ~c4_out.success
    /\ Len(c4_events) = 5
    /\ c4_events[2].kind = "sleep" /\ c4_events[2].seconds = 2
    /\ c4_events[4].kind = "sleep" /\ c4_events[4].seconds = 4
    /\ c4_events[5].kind = "attempt" /\ c4_events[5].outcome = "raised"


----------------------------------------------------------------------------
(* Properties of the optimizer's cleanup and of its empty answer *)

\* C34: with an index service that does not fail, a collection whose creation
\* was started is eventually deleted by the call's cleanup, however the
\* creation task, the chunking task and the cleanup's existence check interleave
C34_CreatedCollectionDeleted ==
    (collection_task = "running") ~> (collection = "deleted")


\* C36: a call on a non-empty list of sources in which nothing raised and the
\* query returned no chunk returns the empty list, not the original sources,
\* and has scheduled the cleanup of its collection
C36_EmptyAnswerWhenNothingRelevant ==
    (op_pc = "returned" /\ scraped_results # <<>> /\ opt_error = ""
        /\ relevant_chunks = <<>>)
        => /\ opt_out.kind = "optimized"
           /\ opt_out.results = <<>>
           /\ cleanup_pc \in {"scheduled", "deleting", "done"}

\* two sources, one with chunks: the query returned none of them, the call
\* returned the empty list, and the cleanup is waiting
C36_Witness ==
    /\ op_pc = "returned"
    /\ Len(scraped_results) = 2
    /\ all_chunks # <<>>
    /\ relevant_chunks = <<>>
    /\ opt_error = ""
    /\ opt_out.kind = "optimized"
    /\ opt_out.results = <<>>
    /\ collection = "exists"
    /\ cleanup_pc = "scheduled"


----------------------------------------------------------------------------
(* Properties of the executor's selection *)

\* the accepted outcomes of the candidates processed so far, in ranked order
AcceptedInOrder ==
    SelectSeq([i \in 1..processed_urls |-> batch_results[i]],
              LAMBDA r : IsDict(r) /\ r.success)

\* the number of entries of a list equal to x
Occurrences(list, x) == Cardinality({k \in DOMAIN list : list[k] = x})

\* C35: the accumulated list never holds more than required_count outcomes;
\* during the loop it is the first required_count accepted outcomes of the
\* processed candidates in ranked order, and the returned list holds exactly
\* those outcomes, reordered by the sort and not shortened by the truncation
C35_FirstAcceptedAreKept ==
    /\ Len(final_results) <= required_results
    /\ ex_pc \in {"loop", "gather"} =>
          final_results = Prefix(AcceptedInOrder, required_results)
    /\ ex_pc = "done" =>
          LET kept == Prefix(AcceptedInOrder, required_results)
          IN /\ Len(final_results) = Len(kept)
             /\ \A k \in DOMAIN kept :
                   Occurrences(final_results, kept[k]) = Occurrences(kept, kept[k])

\* one result required; the batch of two candidates yielded two accepted
\* outcomes, the second with the higher quality score: the first is returned
C35_Witness ==
    /\ ex_pc = "done"
    /\ required_results = 1
    /\ Len(ranked_results) = 2
    /\ Len(AcceptedInOrder) = 2
    /\ AcceptedInOrder[2].quality_score > AcceptedInOrder[1].quality_score
    /\ final_results = <<AcceptedInOrder[1]>>


----------------------------------------------------------------------------
(* Properties of the warm-up flag *)

\* C37: whenever _system_warmed_up is true and no run is inside warmup_crawl4ai
\* or shutdown_crawl4ai, the shared crawl4ai client is there
C37_FlagMeansClient ==
    (_system_warmed_up /\ \A r \in Runs : run_pc[r] \notin {"warming", "shutting"})
        => wu_crawler # "None"



----------------------------------------------------------------------------
(* Properties of the API key fallback *)

\* the value the environment holds for a key name
EnvValue(key_name) ==
    CASE key_name = "GROQ_API_KEY" -> API_KEYS[1]
      [] key_name = "GROQ_API_KEY_ALT_1" -> API_KEYS[2]
      [] key_name = "GROQ_API_KEY_ALT_2" -> API_KEYS[3]
      [] key_name = "GROQ_API_KEY_ALT_3" -> API_KEYS[4]
      [] key_name = "GROQ_API_KEY_ALT_4" -> API_KEYS[5]

\* C38: the keys are looked at strictly in the configured order; a key is
\* skipped, with no request, exactly when it is missing, empty or blank; the
\* first response ends the call, so no key after it is looked at; and the call
\* raises only when every configured key was skipped or its request failed
C38_KeysInPriorityOrder ==
    /\ \A k \in DOMAIN key_log : key_log[k].key_name = LLM_RANKER_API_ORDER[k]
    /\ \A k \in DOMAIN key_log :
          key_log[k].result = "skipped"
             <=> EnvValue(key_log[k].key_name) \in {"None", "", " "}
    /\ \A k \in DOMAIN key_log : key_log[k].result = "response" => k = Len(key_log)
    /\ groq_pc = "returned" =>
          /\ key_log # <<>>
          /\ key_log[Len(key_log)].result = "response"
          /\ groq_out.kind = "response"
          /\ groq_out.key_name = key_log[Len(key_log)].key_name
    /\ groq_pc = "raised" =>
          /\ Len(key_log) = Len(LLM_RANKER_API_ORDER)
          /\ \A k \in DOMAIN key_log : key_log[k].result \in {"skipped"} \cup RequestErrors
          /\ groq_out.kind = "raised"

\* the first key is missing, the second blank, the third hit its rate limit,
\* the fourth answered; the fifth, though set, was not looked at
C38_Witness ==
    /\ groq_pc = "returned"
    /\ Len(key_log) = 4
    /\ key_log[1].result = "skipped" /\ EnvValue("GROQ_API_KEY_ALT_2") = "None"
    /\ key_log[2].result = "skipped" /\ EnvValue("GROQ_API_KEY_ALT_3") = " "
    /\ key_log[3].result = "rate limit"
    /\ groq_out.key_name = "GROQ_API_KEY"
    /\ EnvValue("GROQ_API_KEY_ALT_1") = "gsk"

====
